---- MODULE Spec2Model ----
(***************************************************************************)
(* Model of the proof-generation orchestration of amiabix/flappy_bird.     *)
(*                                                                         *)
(* Part 1: generate_zk_proof.sh (src/unnamed/part_004).                    *)
(*   Spec: NumRuns concurrent shell processes that share the lock file     *)
(*     /tmp/flappy_zisk_proof.lock, the toolchain processes and /dev/shm;  *)
(*     one action per shell command of the lock protocol, the main         *)
(*     sequence as one action.                                             *)
(*   PipeSpec: one run, its main sequence step by step.  A function that   *)
(*     only waits (wait_for_process_completion, verify_file_completion,    *)
(*     wait_for_zisk_resources) is an operator evaluated on what the       *)
(*     environment does while it polls.                                    *)
(*   WaitSpec: one call of one of these three functions, poll by poll.     *)
(*   TermSpec: one run or one call of a wait, with the fairness of a shell *)
(*     that goes on to its next command.                                   *)
(* Part 2 (specification DispatchSpec): the job dispatcher of the Flask    *)
(*   API server (api_server.py, not part of the sources at hand), modelled *)
(*   from spec.md sections 3, 4.6 and 7.                                   *)
(* Part 3: the front end.  BirdSpec: updateBird / jumpBird of              *)
(*   gamePhysics.ts (src/unnamed/part_000).  GameSpec: FlappyBirdGame, tick *)
(*   by tick.  ScreenSpec: one mounted ZKProofScreen, its renders, effects, *)
(*   requests and timers as separate steps.  AppSpec: the game together     *)
(*   with the proof screen it opens.  LegacySpec: the two timers and the    *)
(*   collision effect of SimpleFlappyBird / FlappyBirdWithZisk.             *)
(***************************************************************************)
EXTENDS Integers, Sequences, FiniteSets, TLC

\* ------------------------------------------------------------------------
\* Bounds
\* ------------------------------------------------------------------------
\* number of concurrently started runs of the script
NumRuns == 2

Runs == 1 .. NumRuns

\* number of jobs the dispatcher may create
MaxJobs == 3

\* last instant of the dispatcher clock, and the seconds between two instants
MaxTime == 60
TickSeconds == 15

\* ------------------------------------------------------------------------
\* Pipeline description (main sequence of generate_zk_proof.sh)
\* ------------------------------------------------------------------------
\* the six execute_with_completion_check calls, in program order
StepNames == << "input generation", "ZisK build", "ROM setup",
                "emulation", "proof generation", "proof verification" >>

NumSteps == Len(StepNames)

StepIds == 1 .. NumSteps

\* index of the step launched after wait_for_zisk_resources
ProveStep == 5

\* steps whose failure is followed by `exit 1`
FatalSteps == {1, 2, ProveStep}

\* fourth argument of execute_with_completion_check (default 300)
StepTimeout(s) ==
    CASE s = 1 -> 300
      [] s = 2 -> 300
      [] s = 3 -> 120
      [] s = 4 -> 120
      [] s = 5 -> 1800
      [] s = 6 -> 120

\* third argument of execute_with_completion_check: is a file expected
HasExpectedFile(s) == s \in {1, 2, ProveStep}

\* ------------------------------------------------------------------------
\* Environment inputs
\* ------------------------------------------------------------------------
\* seconds a step's process stays alive after it was launched
ShortLife == 4
MidLife == 200
LongLife == 2000

Lifetimes == {ShortLife, MidLife, LongLife}

\* exit statuses of a step's process
ExitStatuses == {0, 1}

\* behaviour of an expected file: the second at which it appears, the second
\* at which its producer stops writing, and its final size in bytes
FileBehaviours ==
    { [appear |-> 0,   stop |-> 0,   size |-> 64],   \* complete at once
      [appear |-> 0,   stop |-> 0,   size |-> 0],    \* stays empty
      [appear |-> 0,   stop |-> 500, size |-> 64],   \* keeps growing
      [appear |-> 500, stop |-> 500, size |-> 64],   \* never appears in time
      [appear |-> 4,   stop |-> 20,  size |-> 64] }  \* late, grows, settles

\* seconds the ports / shared memory stay busy after the gate starts polling
GateDelays == {0, 25, 1000}

VARIABLES
    pc,         \* pc[r]: position of run r in the script
    lockFile,   \* /tmp/flappy_zisk_proof.lock: [exists, pid]; pid 0 = empty
    readPid,    \* readPid[r]: $PID as read on line 25 (0 = empty string)
    sawStale,   \* sawStale[r]: r took the else-branch of line 26
    failed,     \* failed[r]: steps of r whose execute_with_completion_check returned 1
    acquired,   \* acquired[r]: r wrote the lock record at some time
    trapSet,    \* trapSet[r]: `trap cleanup EXIT` was executed
    cur,        \* cur[r]: step being launched / waited for (0 = none)
    procs,      \* procs[r]: steps of r whose background process is alive
    launched,   \* launched[r]: sequence of the steps r has launched
    timedOut,   \* timedOut[r]: steps of r reported "failed or timed out"
    failedStep, \* failedStep[r]: N of the logged "Step N failed" (0 = none)
    outcome,    \* outcome[r]: exit path taken ("none" while running)
    exitCode,   \* exitCode[r]: exit status of the script (-1 while running)
    zshm,       \* ZISK_* files exist in /dev/shm or /tmp
    log,        \* log[r]: what r has logged from line 237 on and in cleanup
    \* --- job dispatcher ---
    jobState,   \* jobState[j]: "none" until job j is created, then its state
    jobKey,     \* jobKey[j]: DedupKey (player_id, score, difficulty) of job j
    dedupSeen,  \* dedupSeen[k]: time of the last accepted submission, -1 none
    now,        \* dispatcher clock, seconds
    execLock,   \* ExecutionLock record: job holding it, 0 = no record
    resFree,    \* every resource of the ResourceSet is free
    reply,      \* answer to the latest submit
    \* --- one call of a wait function ---
    wKind,      \* "none", or the function called: "process", "file", "gate"
    wAt,        \* position in the function
    wTimeout,   \* its timeout / max_wait
    wElapsed,    \* its local `elapsed`
    wClock,     \* seconds since the call began
    wEnv,       \* what the environment does during the call
    wRet,       \* [rc, log]: return status and the line logged with it
    wPrevSize,   \* verify_file_completion: prev_size
    wStableCount, \* verify_file_completion: stable_count
    sameRun,    \* latest polls of the second loop that read one same size
    appeared,   \* a [ -f ] test of the call has found the file
    portsFree,  \* wait_for_zisk_resources: ports_free
    gChecked,   \* resources looked at in the current pass of the gate
    gSeen,      \* resources found busy in the current pass of the gate
    \* --- one call of execute_with_completion_check ---
    eArgs,      \* what the step's process does during the call (step 0: no call)
    eRes,       \* what the call returned
    \* --- a proof generation of the same user on another port range ---
    foreign,    \* [prover, shm]: its prover is alive, its ZISK_* files exist
    \* --- gamePhysics.ts: one bird under updateBird / jumpBird ---
    bird,       \* [y, velocity, rotation], y and velocity in tenths of a pixel
    \* --- FlappyBirdGame (TypeScript front end) ---
    gameState,  \* [pipes, score, gameStatus, highScore] of useState
    frameCount, \* frames of the running game
    pipeId,     \* id given to the next pipe = pipes generated so far
    storedHighScore, \* localStorage item 'flappyHighScore' (0 = absent)
    requests,   \* submit-score requests sent so far: [site, score]
    \* --- ZKProofScreen (one mounted instance) ---
    mounted,    \* the screen is mounted
    scoreProp,  \* its prop `score`
    ui,         \* its React state, as the latest setState calls left it
    rendered,   \* the state of the latest render: what its closures read
    effectPending, \* the submit effect of the latest render has yet to run
    effectSeen, \* the state seen by the cleanup of the effect last run
    inFlight,   \* submit-score requests awaiting their answer
    timers,     \* live setInterval timers: [id, seen]
    nextTimer,  \* id the next setInterval returns
    statusReqs, \* proof-status requests awaiting their answer
    count,      \* [sent, failed, succeeded, retries, polls] so far
    terminalSeen, \* a status poll has returned a terminal status
    flushing,   \* what React still does at once after a click: "no" = nothing
    \* --- legacy React game (SimpleFlappyBird, FlappyBirdWithZisk) ---
    legacy,     \* [birdPosition, pipes, score, gameStarted, gameOver]
    spawned     \* pipes created since the game was started

scriptVars == << pc, lockFile, readPid, sawStale, failed, acquired, trapSet,
                 cur, procs, launched, timedOut, failedStep, outcome,
                 exitCode, zshm, log >>

dispatchVars == << jobState, jobKey, dedupSeen, now, execLock, resFree,
                   reply >>

waitVars == << wKind, wAt, wTimeout, wElapsed, wClock, wEnv, wRet, wPrevSize,
              wStableCount, sameRun, appeared, portsFree, gChecked, gSeen >>

callVars == << eArgs, eRes >>

gameVars == << gameState, frameCount, pipeId, storedHighScore, requests >>

screenVars == << mounted, scoreProp, ui, rendered, effectPending, effectSeen,
                inFlight, timers, nextTimer, statusReqs, count, terminalSeen,
                flushing >>

legacyVars == << legacy, spawned >>

frontVars == << bird, gameVars, screenVars, legacyVars >>

vars == << scriptVars, dispatchVars, waitVars, callVars, foreign, frontVars >>

\* ------------------------------------------------------------------------
\* Dispatcher data (spec.md section 3)
\* ------------------------------------------------------------------------
JobIds == 1 .. MaxJobs

\* DedupKey = (player_id, score, difficulty)
Keys == { << "p1", 5, 1 >>, << "p1", 6, 1 >> }

NoKey == << "", 0, 0 >>

\* dedup window, seconds
DedupWindow == 30

TerminalStates == {"completed", "failed", "timeout"}

\* `ps -p pid`: the process of run p exists
Alive(p) == p \in Runs /\ pc[p] \notin {"idle", "exited"}

NoLock == [exists |-> FALSE, pid |-> 0]

\* a lock file without content, left by a writer that died between the
\* redirection's truncation and the write of its PID
EmptyLock == [exists |-> TRUE, pid |-> 0]

\* run r is between its lock acquisition (line 38) and its release (line 44)
Held(r) ==
    pc[r] \in {"set_trap", "preflight", "launch", "wait", "gate",
               "pre_cleanup", "proof_check", "cleanup_lock"}

Init ==
    /\ pc = [r \in Runs |-> "idle"]
    /\ lockFile \in {NoLock, EmptyLock}
    /\ readPid = [r \in Runs |-> 0]
    /\ sawStale = [r \in Runs |-> FALSE]
    /\ failed = [r \in Runs |-> {}]
    /\ acquired = [r \in Runs |-> FALSE]
    /\ trapSet = [r \in Runs |-> FALSE]
    /\ cur = [r \in Runs |-> 0]
    /\ procs = [r \in Runs |-> {}]
    /\ launched = [r \in Runs |-> << >>]
    /\ timedOut = [r \in Runs |-> {}]
    /\ failedStep = [r \in Runs |-> 0]
    /\ outcome = [r \in Runs |-> "none"]
    /\ exitCode = [r \in Runs |-> -1]
    /\ zshm = FALSE
    /\ log = [r \in Runs |-> << >>]
    /\ jobState = [j \in JobIds |-> "none"]
    /\ jobKey = [j \in JobIds |-> NoKey]
    /\ dedupSeen = [k \in Keys |-> -1]
    /\ now = 0
    /\ execLock = 0
    /\ resFree = TRUE
    /\ reply = [kind |-> "none", window |-> "first", busy |-> FALSE,
                key |-> NoKey]
    /\ wKind = "none"
    /\ wAt = "idle"
    /\ wTimeout = 0
    /\ wElapsed = 0
    /\ wClock = 0
    /\ wEnv = [scripted |-> FALSE, life |-> 0, busyFor |-> 0,
               file |-> [appear |-> 0, stop |-> 0, size |-> 0]]
    /\ wRet = [rc |-> -1, log |-> "none"]
    /\ wPrevSize = 0
    /\ wStableCount = 0
    /\ sameRun = 0
    /\ appeared = FALSE
    /\ portsFree = TRUE
    /\ gChecked = {}
    /\ gSeen = {}
    /\ eArgs = [alive |-> FALSE, step |-> 0, life |-> 0, status |-> 0,
                file |-> [appear |-> 0, stop |-> 0, size |-> 0]]
    /\ eRes = [rc |-> -1, running |-> FALSE, why |-> "none"]
    /\ foreign = [prover |-> FALSE, shm |-> FALSE]
    /\ bird = [y |-> 3000, velocity |-> 0, rotation |-> 0]
    /\ gameState = [pipes |-> << >>, score |-> 0, gameStatus |-> "menu",
                    highScore |-> 0]
    /\ frameCount = 0
    /\ pipeId = 0
    /\ storedHighScore = 0
    /\ requests = {}
    /\ mounted = FALSE
    /\ scoreProp = 0
    /\ ui = [hasSubmitted |-> FALSE, isSubmitting |-> FALSE, error |-> FALSE,
             isMonitoring |-> FALSE, monitoringInterval |-> 0]
    /\ rendered = ui
    /\ effectPending = FALSE
    /\ effectSeen = ui
    /\ inFlight = << >>
    /\ timers = {}
    /\ nextTimer = 1
    /\ statusReqs = << >>
    /\ count = [sent |-> 0, failed |-> 0, succeeded |-> 0, retries |-> 0,
                polls |-> 0]
    /\ terminalSeen = FALSE
    /\ flushing = "no"
    /\ legacy = [birdPosition |-> 250, pipes |-> << >>, score |-> 0,
                 gameStarted |-> FALSE, gameOver |-> FALSE]
    /\ spawned = 0

\* ------------------------------------------------------------------------
\* The three bounded waits, computed as the script computes them
\* ------------------------------------------------------------------------
\* wait_for_process_completion: `ps -p` is polled at elapsed = 0, 2, 4, ...;
\* the process is alive while fewer than `life` seconds have passed.  The
\* loop is left at the first poll where the process is gone (return 0) or
\* where elapsed >= timeout (return 1).  On 1 the process is still running:
\* the function only logs and returns.
WaitForProcessCompletion(life, timeout) ==
    LET polls == { 2 * k : k \in 0 .. (timeout \div 2 + 1) }
        leaves == { e \in polls : ~(e < life) \/ e >= timeout }
        last == CHOOSE e \in leaves : \A q \in leaves : e <= q
    IN  IF last < life THEN 1 ELSE 0

\* size of a file with behaviour b at second t (-1: the file does not exist)
SizeAt(b, t) ==
    IF t < b.appear THEN -1
    ELSE IF t >= b.stop THEN b.size
    ELSE 1 + (t - b.appear)

\* first loop of verify_file_completion: seconds waited for the file to exist
RECURSIVE ExistWait(_, _, _)
ExistWait(b, timeout, elapsed) ==
    IF SizeAt(b, elapsed) < 0 /\ elapsed < timeout
    THEN ExistWait(b, timeout, elapsed + 2)
    ELSE elapsed

\* second loop of verify_file_completion; t0 is the time spent in the first
RECURSIVE StableLoop(_, _, _, _, _, _, _)
StableLoop(b, minSize, timeout, t0, elapsed, prevSize, stableCount) ==
    IF elapsed < timeout
    THEN LET raw == SizeAt(b, t0 + elapsed)
             currentSize == IF raw < 0 THEN 0 ELSE raw
             counted == currentSize >= minSize /\ currentSize = prevSize
             reset == currentSize >= minSize /\ currentSize # prevSize
             newCount == IF counted THEN stableCount + 1
                         ELSE IF reset THEN 0 ELSE stableCount
         IN  IF counted /\ newCount >= 3
             THEN [rc |-> 0, log |-> "verified"]
             ELSE StableLoop(b, minSize, timeout, t0, elapsed + 2,
                             currentSize, newCount)
    ELSE [rc |-> 1, log |-> "did not stabilize"]

VerifyFileCompletion(b, minSize, timeout) ==
    LET waited == ExistWait(b, timeout, 0)
    IN  IF SizeAt(b, waited) < 0
        THEN [rc |-> 1, log |-> "was not created"]
        ELSE StableLoop(b, minSize, timeout, waited, 0, 0, 0)

\* wait_for_zisk_resources: polls every 10 s for at most 300 s; the ports
\* and shared memory are free from second busyFor on
RECURSIVE GateLoop(_, _)
GateLoop(busyFor, elapsed) ==
    IF elapsed < 300
    THEN IF elapsed >= busyFor
         THEN 0
         ELSE GateLoop(busyFor, elapsed + 10)
    ELSE 1

WaitForZiskResources(busyFor) == GateLoop(busyFor, 0)

\* execute_with_completion_check without lines 223-231: the expected files
\* are not verified
ExecuteWithoutFileCheck(alive, s, life, status, file) ==
    IF alive /\ WaitForProcessCompletion(life, StepTimeout(s)) # 0
    THEN [rc |-> 1, running |-> TRUE, why |-> "timeout"]
    ELSE LET code == IF alive THEN status ELSE 143
         IN  IF code # 0
             THEN [rc |-> 1, running |-> FALSE, why |-> "status"]
             ELSE [rc |-> 0, running |-> FALSE, why |-> "ok"]

\* execute_with_completion_check without lines 215-221: the exit status that
\* `wait $cmd_pid` collects is not looked at
ExecuteIgnoringStatus(alive, s, life, status, file) ==
    IF alive /\ WaitForProcessCompletion(life, StepTimeout(s)) # 0
    THEN [rc |-> 1, running |-> TRUE, why |-> "timeout"]
    ELSE IF HasExpectedFile(s) /\ VerifyFileCompletion(file, 1, 60).rc # 0
         THEN [rc |-> 1, running |-> FALSE, why |-> "file"]
         ELSE [rc |-> 0, running |-> FALSE, why |-> "ok"]

\* execute_with_completion_check for step s.  alive: the background process
\* still exists when the wait starts (it may have been killed by a pkill);
\* life, status, file: what the process does.  running: the process is still
\* alive when the function returns.
ExecuteWithCompletionCheck(alive, s, life, status, file) ==
    IF alive /\ WaitForProcessCompletion(life, StepTimeout(s)) # 0
    THEN [rc |-> 1, running |-> TRUE, why |-> "timeout"]
    ELSE LET code == IF alive THEN status ELSE 143
         IN  IF code # 0
             THEN [rc |-> 1, running |-> FALSE, why |-> "status"]
             ELSE IF HasExpectedFile(s)
                     /\ VerifyFileCompletion(file, 1, 60).rc # 0
                  THEN [rc |-> 1, running |-> FALSE, why |-> "file"]
                  ELSE [rc |-> 0, running |-> FALSE, why |-> "ok"]

\* ------------------------------------------------------------------------
\* The log
\* ------------------------------------------------------------------------
\* one logged line: its text, the step it is about (0: none) and the exit
\* status it quotes (0: none)
Msg(m, s, c) == [msg |-> m, step |-> s, code |-> c]

\* run r writes lines to its log
Logged(r, lines) == log' = [log EXCEPT ![r] = @ \o lines]

\* run r has logged line m
InLog(r, m) == \E i \in DOMAIN log[r] : log[r][i] = m

\* number of times run r has logged line m
Count(r, m) == Cardinality({ i \in DOMAIN log[r] : log[r][i] = m })

\* StepLog with one error line for every cause of failure
StepLogOneError(alive, s, life, status, file) ==
    LET res == ExecuteWithCompletionCheck(alive, s, life, status, file)
    IN  IF res.rc # 0
        THEN << Msg("failed or timed out", s, 0) >>
        ELSE << Msg("completed successfully", s, 0) >>

\* what execute_with_completion_check logs for step s: lines 64 and 210 on
\* a timeout, line 219 on a non-zero exit status, line 96 or 129 and line
\* 227 when the expected file is not verified, line 112 and line 233 on
\* success
StepLog(alive, s, life, status, file) ==
    LET res == ExecuteWithCompletionCheck(alive, s, life, status, file)
        code == IF alive THEN status ELSE 143
    IN  CASE res.why = "timeout" ->
               << Msg("timed out after", s, 0),
                  Msg("failed or timed out", s, 0) >>
          [] res.why = "status" ->
               << Msg("failed with exit code", s, code) >>
          [] res.why = "file" ->
               << Msg(VerifyFileCompletion(file, 1, 60).log, s, 0),
                  Msg("did not produce expected file", s, 0) >>
          [] res.why = "ok" ->
               (IF HasExpectedFile(s)
                THEN << Msg(VerifyFileCompletion(file, 1, 60).log, s, 0) >>
                ELSE << >>)
               \o << Msg("completed successfully", s, 0) >>

\* the line that announces each exit path of the main sequence (lines 242,
\* 253, 268, 278, 324, 312, 337, 341, 360); fs: the step of "Step N failed"
ExitMessage(path, fs) ==
    CASE path = "no_score" -> Msg("Please provide a game score", 0, 0)
      [] path = "no_dir" ->
           Msg("Could not change to flappy_zisk directory", 0, 0)
      [] path = "step_failed" -> Msg("Step failed", fs, 0)
      [] path = "resources_unavailable" ->
           Msg("Cannot proceed with proof generation - resources unavailable",
               0, 0)
      [] path = "proof_empty" -> Msg("Proof file is empty or missing", 0, 0)
      [] path = "no_proof_dir" ->
           Msg("Proof directory was not created", 0, 0)
      [] path = "success" -> Msg("All steps executed successfully", 0, 0)

\* what the main sequence logs once execute_with_completion_check returned
\* rc for step s: "Step N failed" (lines 268, 278, 324), the warning of a
\* tolerated failure (lines 291, 302, 353), and line 360 after the last step
CallerLog(s, rc) ==
    IF rc # 0 /\ s \in FatalSteps
    THEN << ExitMessage("step_failed", s) >>
    ELSE (IF rc # 0 THEN << Msg("failed, continuing", s, 0) >> ELSE << >>)
         \o (IF s = NumSteps THEN << ExitMessage("success", 0) >>
                             ELSE << >>)

\* ------------------------------------------------------------------------
\* The script, line by line
\* ------------------------------------------------------------------------
\* `exit code` of a shell that runs no EXIT trap
ExitScriptNoTrap(r, code, why) ==
    /\ exitCode' = [exitCode EXCEPT ![r] = code]
    /\ outcome' = [outcome EXCEPT ![r] = why]
    /\ pc' = [pc EXCEPT ![r] = "exited"]

\* `exit code` in a script whose `trap cleanup EXIT` stands before the lock
\* check: cleanup runs on every exit
ExitScriptAlwaysTrap(r, code, why) ==
    /\ exitCode' = [exitCode EXCEPT ![r] = code]
    /\ outcome' = [outcome EXCEPT ![r] = why]
    /\ pc' = [pc EXCEPT ![r] = "cleanup_lock"]

\* `exit code`: with the EXIT trap installed the shell runs cleanup first
ExitScript(r, code, why) ==
    /\ exitCode' = [exitCode EXCEPT ![r] = code]
    /\ outcome' = [outcome EXCEPT ![r] = why]
    /\ pc' = [pc EXCEPT ![r] = IF trapSet[r] THEN "cleanup_lock"
                                             ELSE "exited"]

\* the script is started
Start(r) ==
    /\ pc[r] = "idle"
    /\ pc' = [pc EXCEPT ![r] = "check_lock"]
    /\ UNCHANGED log
    /\ UNCHANGED << dispatchVars, waitVars, callVars, frontVars, foreign >>
    /\ UNCHANGED << lockFile, readPid, sawStale, failed, acquired, trapSet,
                    cur, procs, launched, timedOut, failedStep, outcome,
                    exitCode, zshm >>

\* line 24: [ -f "$LOCK_FILE" ]
CheckLock(r) ==
    /\ pc[r] = "check_lock"
    /\ pc' = [pc EXCEPT ![r] = IF lockFile.exists THEN "read_pid"
                                                  ELSE "create_lock"]
    /\ UNCHANGED log
    /\ UNCHANGED << dispatchVars, waitVars, callVars, frontVars, foreign >>
    /\ UNCHANGED << lockFile, readPid, sawStale, failed, acquired, trapSet,
                    cur, procs, launched, timedOut, failedStep, outcome,
                    exitCode, zshm >>

\* line 25: PID=$(cat "$LOCK_FILE" 2>/dev/null)
ReadPid(r) ==
    /\ pc[r] = "read_pid"
    /\ readPid' = [readPid EXCEPT ![r] = IF lockFile.exists THEN lockFile.pid
                                                            ELSE 0]
    /\ pc' = [pc EXCEPT ![r] = "check_pid"]
    /\ UNCHANGED log
    /\ UNCHANGED << dispatchVars, waitVars, callVars, frontVars, foreign >>
    /\ UNCHANGED << lockFile, sawStale, failed, acquired, trapSet,
                    cur, procs, launched, timedOut, failedStep, outcome,
                    exitCode, zshm >>

\* CheckPid without the `exit 1` of line 29: a live holder is logged and the
\* script falls through to the removal of the lock
CheckPidNoExit(r) ==
    /\ pc[r] = "check_pid"
    /\ pc' = [pc EXCEPT ![r] = "rm_stale"]
    /\ sawStale' = [sawStale EXCEPT ![r] =
                       ~(readPid[r] # 0 /\ Alive(readPid[r]))]
    /\ readPid' = [readPid EXCEPT ![r] = 0]
    /\ UNCHANGED log
    /\ UNCHANGED << dispatchVars, waitVars, callVars, frontVars, foreign >>
    /\ UNCHANGED << lockFile, failed, acquired, trapSet, cur, procs,
                    launched, timedOut, failedStep, outcome, exitCode, zshm >>

\* CheckPid without the `ps -p` of line 26: every non-empty record counts
\* as a running instance
CheckPidNoPs(r) ==
    /\ pc[r] = "check_pid"
    /\ IF readPid[r] # 0
       THEN /\ exitCode' = [exitCode EXCEPT ![r] = 1]
            /\ outcome' = [outcome EXCEPT ![r] = "busy"]
            /\ pc' = [pc EXCEPT ![r] = "exited"]
            /\ sawStale' = [sawStale EXCEPT ![r] = ~Alive(readPid[r])]
       ELSE /\ pc' = [pc EXCEPT ![r] = "rm_stale"]
            /\ sawStale' = [sawStale EXCEPT ![r] = TRUE]
            /\ UNCHANGED << outcome, exitCode >>
    /\ readPid' = [readPid EXCEPT ![r] = 0]
    /\ UNCHANGED log
    /\ UNCHANGED << dispatchVars, waitVars, callVars, frontVars, foreign >>
    /\ UNCHANGED << lockFile, failed, acquired, trapSet, cur, procs,
                    launched, timedOut, failedStep, zshm >>

\* lines 26-30: [ -n "$PID" ] && ps -p "$PID"; then exit 1, else go on
CheckPid(r) ==
    /\ pc[r] = "check_pid"
    /\ IF readPid[r] # 0 /\ Alive(readPid[r])
       THEN /\ ExitScript(r, 1, "busy")
            /\ UNCHANGED sawStale
       ELSE /\ pc' = [pc EXCEPT ![r] = "rm_stale"]
            /\ sawStale' = [sawStale EXCEPT ![r] = TRUE]
            /\ UNCHANGED << outcome, exitCode >>
    /\ readPid' = [readPid EXCEPT ![r] = 0]
    /\ UNCHANGED log
    /\ UNCHANGED << dispatchVars, waitVars, callVars, frontVars, foreign >>
    /\ UNCHANGED << lockFile, failed, acquired, trapSet, cur, procs,
                    launched, timedOut, failedStep, zshm >>

\* line 32: rm -f "$LOCK_FILE"
RemoveStale(r) ==
    /\ pc[r] = "rm_stale"
    /\ lockFile' = NoLock
    /\ pc' = [pc EXCEPT ![r] = "create_lock"]
    /\ UNCHANGED log
    /\ UNCHANGED << dispatchVars, waitVars, callVars, frontVars, foreign >>
    /\ UNCHANGED << readPid, sawStale, failed, acquired, trapSet, cur, procs,
                    launched, timedOut, failedStep, outcome, exitCode, zshm >>

\* line 38: echo $$ > "$LOCK_FILE"
CreateLock(r) ==
    /\ pc[r] = "create_lock"
    /\ lockFile' = [exists |-> TRUE, pid |-> r]
    /\ acquired' = [acquired EXCEPT ![r] = TRUE]
    /\ pc' = [pc EXCEPT ![r] = "set_trap"]
    /\ UNCHANGED log
    /\ UNCHANGED << dispatchVars, waitVars, callVars, frontVars, foreign >>
    /\ UNCHANGED << readPid, sawStale, failed, trapSet, cur, procs, launched,
                    timedOut, failedStep, outcome, exitCode, zshm >>

\* line 51: trap cleanup EXIT
SetTrap(r) ==
    /\ pc[r] = "set_trap"
    /\ trapSet' = [trapSet EXCEPT ![r] = TRUE]
    /\ pc' = [pc EXCEPT ![r] = "preflight"]
    /\ UNCHANGED log
    /\ UNCHANGED << dispatchVars, waitVars, callVars, frontVars, foreign >>
    /\ UNCHANGED << lockFile, readPid, sawStale, failed, acquired, cur, procs,
                    launched, timedOut, failedStep, outcome, exitCode, zshm >>

\* lines 241-255: score argument given?  cd into flappy_zisk possible?
PreflightWith(r, res) ==
    /\ pc[r] = "preflight"
    /\ IF res = "ok"
       THEN /\ pc' = [pc EXCEPT ![r] = "launch"]
            /\ cur' = [cur EXCEPT ![r] = 1]
            /\ UNCHANGED << outcome, exitCode, log >>
       ELSE /\ ExitScript(r, 1, res)
            /\ Logged(r, << ExitMessage(res, 0) >>)
            /\ UNCHANGED cur
    /\ UNCHANGED << dispatchVars, waitVars, callVars, frontVars, foreign >>
    /\ UNCHANGED << lockFile, readPid, sawStale, failed, acquired, trapSet,
                    procs, launched, timedOut, failedStep, zshm >>

\* the score argument is given or not, the directory is there or not
Preflight(r) == \E res \in {"ok", "no_score", "no_dir"} : PreflightWith(r, res)

\* lines 205-206: eval "$cmd" &  (the prover creates its shared memory)
Launch(r) ==
    /\ pc[r] = "launch"
    /\ procs' = [procs EXCEPT ![r] = @ \cup {cur[r]}]
    /\ launched' = [launched EXCEPT ![r] = Append(@, cur[r])]
    /\ zshm' = (zshm \/ cur[r] = ProveStep)
    /\ pc' = [pc EXCEPT ![r] = "wait"]
    /\ UNCHANGED log
    /\ UNCHANGED << dispatchVars, waitVars, callVars, frontVars, foreign >>
    /\ UNCHANGED << lockFile, readPid, sawStale, failed, acquired, trapSet,
                    cur, timedOut, failedStep, outcome, exitCode >>

\* AfterStep with every step treated like ROM setup: a failure is logged
\* and the sequence goes on
AfterStepNeverFatal(r, s, res) ==
    /\ UNCHANGED failedStep
    /\ IF s = NumSteps
       THEN /\ exitCode' = [exitCode EXCEPT ![r] = 0]
            /\ outcome' = [outcome EXCEPT ![r] = "success"]
            /\ pc' = [pc EXCEPT ![r] = "cleanup_lock"]
            /\ UNCHANGED cur
       ELSE /\ pc' = [pc EXCEPT ![r] =
                        IF s = ProveStep - 1 THEN "gate"
                        ELSE IF s = ProveStep THEN "proof_check"
                        ELSE "launch"]
            /\ cur' = [cur EXCEPT ![r] = s + 1]
            /\ UNCHANGED << outcome, exitCode >>

\* AfterStep with every step treated like the build steps: any failure is
\* followed by "Step N failed" and exit 1
AfterStepAllFatal(r, s, res) ==
    IF res.rc # 0
    THEN /\ failedStep' = [failedStep EXCEPT ![r] = s]
         /\ ExitScript(r, 1, "step_failed")
         /\ UNCHANGED cur
    ELSE /\ UNCHANGED failedStep
         /\ IF s = NumSteps
            THEN /\ ExitScript(r, 0, "success")
                 /\ UNCHANGED cur
            ELSE /\ pc' = [pc EXCEPT ![r] =
                             IF s = ProveStep - 1 THEN "gate"
                             ELSE IF s = ProveStep THEN "proof_check"
                             ELSE "launch"]
                 /\ cur' = [cur EXCEPT ![r] = s + 1]
                 /\ UNCHANGED << outcome, exitCode >>

\* what the main sequence does once execute_with_completion_check returned
\* res for step s (lines 267-270, 277-280, 288-292, 299-303, 323-326,
\* 350-362)
AfterStep(r, s, res) ==
    IF res.rc # 0 /\ s \in FatalSteps
    THEN /\ failedStep' = [failedStep EXCEPT ![r] = s]
         /\ ExitScript(r, 1, "step_failed")
         /\ UNCHANGED cur
    ELSE /\ UNCHANGED failedStep
         /\ IF s = NumSteps
            THEN /\ ExitScript(r, 0, "success")
                 /\ UNCHANGED cur
            ELSE /\ pc' = [pc EXCEPT ![r] =
                             IF s = ProveStep - 1 THEN "gate"
                             ELSE IF s = ProveStep THEN "proof_check"
                             ELSE "launch"]
                 /\ cur' = [cur EXCEPT ![r] = s + 1]
                 /\ UNCHANGED << outcome, exitCode >>

\* lines 209-234 and the caller's branch on the result
CompleteWith(r, life, status, file) ==
    /\ pc[r] = "wait"
    /\    LET s == cur[r]
              res == ExecuteWithCompletionCheck(s \in procs[r], s, life,
                                                status, file)
          IN  /\ procs' = [procs EXCEPT ![r] =
                             IF res.running THEN @ ELSE @ \ {s}]
              /\ timedOut' = [timedOut EXCEPT ![r] =
                             IF res.why = "timeout" THEN @ \cup {s} ELSE @]
              /\ failed' = [failed EXCEPT ![r] =
                             IF res.rc # 0 THEN @ \cup {s} ELSE @]
              /\ Logged(r, StepLog(s \in procs[r], s, life, status, file)
                            \o CallerLog(s, res.rc))
              /\ AfterStep(r, s, res)
    /\ UNCHANGED << dispatchVars, waitVars, callVars, frontVars, foreign >>
    /\ UNCHANGED << lockFile, readPid, sawStale, acquired, trapSet,
                    launched, zshm >>

\* the step's process behaves in any of the modelled ways
Complete(r) ==
    \E life \in Lifetimes, status \in ExitStatuses, file \in FileBehaviours :
        CompleteWith(r, life, status, file)

\* lines 311-314: wait_for_zisk_resources
GateWith(r, busyFor) ==
    /\ pc[r] = "gate"
    /\    IF WaitForZiskResources(busyFor) = 0
          THEN /\ pc' = [pc EXCEPT ![r] = "pre_cleanup"]
               /\ Logged(r, << Msg("ZisK resources are available", 0, 0) >>)
               /\ UNCHANGED << outcome, exitCode >>
          ELSE /\ ExitScript(r, 1, "resources_unavailable")
               /\ Logged(r, << Msg("Timeout waiting for ZisK resources",
                                   0, 0),
                               ExitMessage("resources_unavailable", 0) >>)
    /\ UNCHANGED << dispatchVars, waitVars, callVars, frontVars, foreign >>
    /\ UNCHANGED << lockFile, readPid, sawStale, failed, acquired, trapSet,
                    cur, procs, launched, timedOut, failedStep, zshm >>

\* lines 311-314 without the exit: the sequence goes on after a timeout of
\* wait_for_zisk_resources
GateNoAbort(r) ==
    /\ pc[r] = "gate"
    /\ \E busyFor \in GateDelays :
          Logged(r, << Msg(IF WaitForZiskResources(busyFor) = 0
                           THEN "ZisK resources are available"
                           ELSE "Timeout waiting for ZisK resources",
                           0, 0) >>)
    /\ pc' = [pc EXCEPT ![r] = "pre_cleanup"]
    /\ UNCHANGED << dispatchVars, waitVars, callVars, frontVars, foreign >>
    /\ UNCHANGED << lockFile, readPid, sawStale, failed, acquired, trapSet,
                    cur, procs, launched, timedOut, failedStep, zshm,
                    outcome, exitCode >>

\* the ports and the shared memory stay busy for any of the modelled delays
Gate(r) == \E busyFor \in GateDelays : GateWith(r, busyFor)

\* cleanup_zisk_processes (lines 134-146): pkill -f "cargo-zisk.*prove"
\* hits the prover of every run; find -delete removes every ZISK_* file
ProcsAfterPkill == [q \in Runs |-> procs[q] \ {ProveStep}]

\* the same two commands seen from a proof generation that uses other ports:
\* neither pattern names port 23200, so its prover is killed and its
\* ZISK_* files are deleted as well
ForeignAfterCleanup == [prover |-> FALSE, shm |-> FALSE]

\* lines 317-318: cleanup_zisk_processes before the prover is started
PreCleanup(r) ==
    /\ pc[r] = "pre_cleanup"
    /\ procs' = ProcsAfterPkill
    /\ zshm' = FALSE
    /\ foreign' = ForeignAfterCleanup
    /\ pc' = [pc EXCEPT ![r] = "launch"]
    /\ Logged(r, << Msg("Cleaning up ZisK processes and resources", 0, 0) >>)
    /\ UNCHANGED << dispatchVars, waitVars, callVars, frontVars >>
    /\ UNCHANGED << lockFile, readPid, sawStale, failed, acquired, trapSet,
                    cur, launched, timedOut, failedStep, outcome, exitCode >>

\* lines 329-343 with a [ -s ] test on a file name the prover does not
\* write: the test fails whatever the prover has produced
ProofCheckWrongFile(r, seen) ==
    /\ pc[r] = "proof_check"
    /\ ExitScript(r, 1, "proof_empty")
    /\ Logged(r, << ExitMessage("proof_empty", 0) >>)
    /\ UNCHANGED << dispatchVars, waitVars, callVars, frontVars, foreign >>
    /\ UNCHANGED << lockFile, readPid, sawStale, failed, acquired, trapSet,
                    cur, procs, launched, timedOut, failedStep, zshm >>

\* lines 329-343: [ -d proof ] and [ -s proof/vadcop_final_proof.bin ]
ProofCheckWith(r, seen) ==
    /\ pc[r] = "proof_check"
    /\    IF seen = "ok"
          THEN /\ pc' = [pc EXCEPT ![r] = "launch"]
               /\ Logged(r, << Msg("Proof file generated successfully",
                                   0, 0) >>)
               /\ UNCHANGED << outcome, exitCode >>
          ELSE /\ ExitScript(r, 1, seen)
               /\ Logged(r, << ExitMessage(seen, 0) >>)
    /\ UNCHANGED << dispatchVars, waitVars, callVars, frontVars, foreign >>
    /\ UNCHANGED << lockFile, readPid, sawStale, failed, acquired, trapSet,
                    cur, procs, launched, timedOut, failedStep, zshm >>

\* what the two tests find
ProofCheck(r) ==
    \E seen \in {"ok", "proof_empty", "no_proof_dir"} : ProofCheckWith(r, seen)

\* cleanup with `rm "$LOCK_FILE"` in a shell that stops at the first failing
\* command: removing a lock file that is not there ends the function with
\* status 1
CleanupLockStrict(r) ==
    /\ pc[r] = "cleanup_lock"
    /\ lockFile' = NoLock
    /\ pc' = [pc EXCEPT ![r] = IF lockFile.exists THEN "cleanup_zisk"
                                ELSE "exited"]
    /\ exitCode' = [exitCode EXCEPT ![r] = IF lockFile.exists THEN @ ELSE 1]
    /\ Logged(r, << Msg("Cleaning up lock file", 0, 0) >>)
    /\ UNCHANGED << dispatchVars, waitVars, callVars, frontVars, foreign >>
    /\ UNCHANGED << readPid, sawStale, failed, acquired, trapSet, cur, procs,
                    launched, timedOut, failedStep, outcome, zshm >>

\* cleanup, line 44: rm -f "$LOCK_FILE"
CleanupLock(r) ==
    /\ pc[r] = "cleanup_lock"
    /\ lockFile' = NoLock
    /\ pc' = [pc EXCEPT ![r] = "cleanup_zisk"]
    /\ Logged(r, << Msg("Cleaning up lock file", 0, 0) >>)
    /\ UNCHANGED << dispatchVars, waitVars, callVars, frontVars, foreign >>
    /\ UNCHANGED << readPid, sawStale, failed, acquired, trapSet, cur, procs,
                    launched, timedOut, failedStep, outcome, exitCode, zshm >>

\* cleanup whose pkill lacks `|| true` and whose status becomes the exit
\* status of the shell: a pkill that matches no process (status 1) turns the
\* exit status into 1
CleanupZiskEscalates(r) ==
    /\ pc[r] = "cleanup_zisk"
    /\ exitCode' = [exitCode EXCEPT ![r] =
                      IF \E q \in Runs : ProveStep \in procs[q] THEN @ ELSE 1]
    /\ procs' = ProcsAfterPkill
    /\ zshm' = FALSE
    /\ foreign' = ForeignAfterCleanup
    /\ pc' = [pc EXCEPT ![r] = "exited"]
    /\ Logged(r, << Msg("Cleaning up ZisK processes and resources", 0, 0) >>)
    /\ UNCHANGED << dispatchVars, waitVars, callVars, frontVars >>
    /\ UNCHANGED << lockFile, readPid, sawStale, failed, acquired, trapSet,
                    cur, launched, timedOut, failedStep, outcome >>

\* cleanup, line 47: cleanup_zisk_processes; then the shell exits
CleanupZisk(r) ==
    /\ pc[r] = "cleanup_zisk"
    /\ procs' = ProcsAfterPkill
    /\ zshm' = FALSE
    /\ foreign' = ForeignAfterCleanup
    /\ pc' = [pc EXCEPT ![r] = "exited"]
    /\ Logged(r, << Msg("Cleaning up ZisK processes and resources", 0, 0) >>)
    /\ UNCHANGED << dispatchVars, waitVars, callVars, frontVars >>
    /\ UNCHANGED << lockFile, readPid, sawStale, failed, acquired, trapSet,
                    cur, launched, timedOut, failedStep, outcome, exitCode >>

\* external interruption of the shell.  SIGTERM / SIGINT: bash runs the EXIT
\* trap if it is installed; SIGKILL, or no trap yet: the shell just dies.
\* Background step processes are not touched.
Interrupt(r) ==
    /\ pc[r] \notin {"idle", "exited"}
    /\ \E sig \in {"sigterm", "sigkill"} :
          /\ sig = "sigterm" => pc[r] \notin {"cleanup_lock", "cleanup_zisk"}
          /\ outcome' = [outcome EXCEPT ![r] = sig]
          /\ exitCode' = [exitCode EXCEPT ![r] =
                            IF sig = "sigterm" THEN 143 ELSE 137]
          /\ pc' = [pc EXCEPT ![r] = IF sig = "sigterm" /\ trapSet[r]
                                     THEN "cleanup_lock"
                                     ELSE "exited"]
    /\ readPid' = [readPid EXCEPT ![r] = 0]
    /\ UNCHANGED log
    /\ UNCHANGED << dispatchVars, waitVars, callVars, frontVars, foreign >>
    /\ UNCHANGED << lockFile, sawStale, failed, acquired, trapSet, cur, procs,
                    launched, timedOut, failedStep, zshm >>

\* a step process that nobody waits for any more terminates by itself
ProcExit(r) ==
    /\ \E s \in procs[r] :
          /\ ~(pc[r] = "wait" /\ cur[r] = s)
          /\ procs' = [procs EXCEPT ![r] = @ \ {s}]
    /\ UNCHANGED log
    /\ UNCHANGED << dispatchVars, waitVars, callVars, frontVars, foreign >>
    /\ UNCHANGED << pc, lockFile, readPid, sawStale, failed, acquired, trapSet,
                    cur, launched, timedOut, failedStep, outcome, exitCode,
                    zshm >>

\* cleanup_zisk_processes (lines 134-146) run by an instance of the script
\* outside the modelled runs: its pkill and find -delete do not look at who
\* owns the prover or the ZISK_* files
ForeignCleanup ==
    /\ \E r \in Runs : ProveStep \in procs[r]
    /\ procs' = ProcsAfterPkill
    /\ zshm' = FALSE
    /\ foreign' = ForeignAfterCleanup
    /\ UNCHANGED log
    /\ UNCHANGED << dispatchVars, waitVars, callVars, frontVars >>
    /\ UNCHANGED << pc, lockFile, readPid, sawStale, failed, acquired, trapSet,
                    cur, launched, timedOut, failedStep, outcome, exitCode >>

\* exit paths of the main sequence (lines 237-362)
MainExits == {"no_score", "no_dir", "step_failed", "resources_unavailable",
              "proof_empty", "no_proof_dir", "success"}

\* the steps that have been launched when the main sequence leaves through
\* `path` (fs: the fatal step that failed, for "step_failed")
PathLaunched(path, fs) ==
    LET n == CASE path \in {"no_score", "no_dir"} -> 0
               [] path = "step_failed" -> fs
               [] path = "resources_unavailable" -> ProveStep - 1
               [] path \in {"proof_empty", "no_proof_dir"} -> ProveStep
               [] path = "success" -> NumSteps
    IN  [i \in 1 .. n |-> i]

\* lines 237-362 as one step of a run: the main sequence runs to one of its
\* exit statements.  Used where several runs compete for the lock; the
\* specification PipeSpec takes the same lines step by step.
MainBody(r) ==
    /\ pc[r] = "preflight"
    /\ \E path \in MainExits, fs \in FatalSteps :
          /\ path # "step_failed" => fs = 1
          /\ failedStep' = [failedStep EXCEPT ![r] =
                              IF path = "step_failed" THEN fs ELSE 0]
          /\ launched' = [launched EXCEPT ![r] = PathLaunched(path, fs)]
          /\ Logged(r, << ExitMessage(path, fs) >>)
          /\ foreign' = IF ProveStep \in {PathLaunched(path, fs)[i] :
                                          i \in DOMAIN PathLaunched(path, fs)}
                         THEN ForeignAfterCleanup
                         ELSE foreign
          /\ ExitScript(r, IF path = "success" THEN 0 ELSE 1, path)
    /\ UNCHANGED << dispatchVars, waitVars, callVars, frontVars >>
    /\ UNCHANGED << lockFile, readPid, sawStale, failed, acquired, trapSet,
                    cur, procs, timedOut, zshm >>

\* several runs of the script competing for the lock file
Next ==
    \E r \in Runs :
        \/ Start(r)
        \/ CheckLock(r)
        \/ ReadPid(r)
        \/ CheckPid(r)
        \/ RemoveStale(r)
        \/ CreateLock(r)
        \/ SetTrap(r)
        \/ MainBody(r)
        \/ CleanupLock(r)
        \/ CleanupZisk(r)
        \/ Interrupt(r)

Spec == Init /\ [][Next]_vars

\* one run of the script, its main sequence taken step by step
PipeNext ==
    \/ \E r \in {1} :
        \/ Start(r)
        \/ CheckLock(r)
        \/ ReadPid(r)
        \/ CheckPid(r)
        \/ RemoveStale(r)
        \/ CreateLock(r)
        \/ SetTrap(r)
        \/ Preflight(r)
        \/ Launch(r)
        \/ Complete(r)
        \/ Gate(r)
        \/ PreCleanup(r)
        \/ ProofCheck(r)
        \/ CleanupLock(r)
        \/ CleanupZisk(r)
        \/ Interrupt(r)
        \/ ProcExit(r)
    \/ ForeignCleanup

PipeSpec == Init /\ [][PipeNext]_vars

\* MainBody is a summary of the step-by-step main sequence: under PipeSpec
\* every run that leaves through an exit statement has launched the steps,
\* and has the exit status and the "Step N failed" log, that MainBody gives
\* to that exit path
MainBodyAgrees ==
    \A r \in Runs :
        outcome[r] \in MainExits
        => /\ launched[r] = PathLaunched(outcome[r],
                               IF failedStep[r] = 0 THEN 1 ELSE failedStep[r])
           /\ exitCode[r] = (IF outcome[r] = "success" THEN 0 ELSE 1)
           /\ (failedStep[r] # 0) = (outcome[r] = "step_failed")
           /\ failedStep[r] \in FatalSteps \cup {0}
           /\ \E i \in DOMAIN log[r] :
                 log[r][i] = ExitMessage(outcome[r], failedStep[r])

\* ------------------------------------------------------------------------
\* Job dispatcher (spec.md sections 4.6 and 7)
\* ------------------------------------------------------------------------
\* position of `now` relative to the dedup window of key k
Window(k) ==
    IF dedupSeen[k] < 0 THEN "first"
    ELSE IF now - dedupSeen[k] < DedupWindow THEN "inside"
    ELSE "outside"

\* a Job is in_progress or the ExecutionLock reports Busy
Busy == execLock # 0 \/ \E j \in JobIds : jobState[j] = "in_progress"

\* Submit without the dedup check
SubmitNoDedup(k) ==
    /\ \E j \in JobIds : jobState[j] = "none"
    /\ LET j == CHOOSE i \in JobIds :
                   jobState[i] = "none"
                   /\ \A h \in JobIds : jobState[h] = "none" => i <= h
           answer(kind) == [kind |-> kind, window |-> Window(k),
                            busy |-> Busy, key |-> k]
       IN  IF Busy
           THEN /\ reply' = answer("busy")
                /\ UNCHANGED << jobState, jobKey, dedupSeen >>
           ELSE /\ reply' = answer("job")
                /\ jobState' = [jobState EXCEPT ![j] = "pending"]
                /\ jobKey' = [jobKey EXCEPT ![j] = k]
                /\ dedupSeen' = [dedupSeen EXCEPT ![k] = now]
    /\ UNCHANGED << now, execLock, resFree >>
    /\ UNCHANGED << scriptVars, waitVars, callVars, frontVars, foreign >>

\* submit(player_id, score, difficulty) -> Job | Rejected(Duplicate) |
\* Rejected(Busy): dedup check, then busy check, then a Job in pending
Submit(k) ==
    /\ \E j \in JobIds : jobState[j] = "none"
    /\ LET j == CHOOSE i \in JobIds :
                   jobState[i] = "none"
                   /\ \A h \in JobIds : jobState[h] = "none" => i <= h
           answer(kind) == [kind |-> kind, window |-> Window(k),
                            busy |-> Busy, key |-> k]
       IN  IF Window(k) = "inside"
           THEN /\ reply' = answer("duplicate")
                /\ UNCHANGED << jobState, jobKey, dedupSeen >>
           ELSE IF Busy
           THEN /\ reply' = answer("busy")
                /\ UNCHANGED << jobState, jobKey, dedupSeen >>
           ELSE /\ reply' = answer("job")
                /\ jobState' = [jobState EXCEPT ![j] = "pending"]
                /\ jobKey' = [jobKey EXCEPT ![j] = k]
                /\ dedupSeen' = [dedupSeen EXCEPT ![k] = now]
    /\ UNCHANGED << now, execLock, resFree >>
    /\ UNCHANGED << scriptVars, waitVars, callVars, frontVars, foreign >>

\* StartJob that does not look at the ExecutionLock
StartJobNoLock(j) ==
    /\ jobState[j] = "pending"
    /\ resFree
    /\ execLock' = j
    /\ jobState' = [jobState EXCEPT ![j] = "in_progress"]
    /\ UNCHANGED << jobKey, dedupSeen, now, resFree, reply >>
    /\ UNCHANGED << scriptVars, waitVars, callVars, frontVars, foreign >>

\* pending -> in_progress: the ExecutionLock is acquired (atomically) and
\* the ResourceGate reports Ready; otherwise the run is deferred
StartJob(j) ==
    /\ jobState[j] = "pending"
    /\ execLock = 0
    /\ resFree
    /\ execLock' = j
    /\ jobState' = [jobState EXCEPT ![j] = "in_progress"]
    /\ UNCHANGED << jobKey, dedupSeen, now, resFree, reply >>
    /\ UNCHANGED << scriptVars, waitVars, callVars, frontVars, foreign >>

\* FinishJob that also ends a job which never started
FinishJobAnyState(j) ==
    /\ jobState[j] \in {"pending", "in_progress"}
    /\ \E result \in TerminalStates :
          jobState' = [jobState EXCEPT ![j] = result]
    /\ execLock' = IF execLock = j THEN 0 ELSE execLock
    /\ UNCHANGED << jobKey, dedupSeen, now, resFree, reply >>
    /\ UNCHANGED << scriptVars, waitVars, callVars, frontVars, foreign >>

\* in_progress -> completed | failed | timeout; CleanupRecovery releases the
\* ExecutionLock
FinishJob(j) ==
    /\ jobState[j] = "in_progress"
    /\ \E result \in TerminalStates :
          jobState' = [jobState EXCEPT ![j] = result]
    /\ execLock' = IF execLock = j THEN 0 ELSE execLock
    /\ UNCHANGED << jobKey, dedupSeen, now, resFree, reply >>
    /\ UNCHANGED << scriptVars, waitVars, callVars, frontVars, foreign >>

\* time passes
Tick ==
    /\ now + TickSeconds <= MaxTime
    /\ now' = now + TickSeconds
    /\ UNCHANGED << jobState, jobKey, dedupSeen, execLock, resFree, reply >>
    /\ UNCHANGED << scriptVars, waitVars, callVars, frontVars, foreign >>

\* a port or shared-memory segment of the ResourceSet is claimed or released
\* by the toolchain
ResourceChange ==
    /\ resFree' = ~resFree
    /\ UNCHANGED << jobState, jobKey, dedupSeen, now, execLock, reply >>
    /\ UNCHANGED << scriptVars, waitVars, callVars, frontVars, foreign >>

DispatchNext ==
    \/ \E k \in Keys : Submit(k)
    \/ \E j \in JobIds : StartJob(j)
    \/ \E j \in JobIds : FinishJob(j)
    \/ Tick
    \/ ResourceChange

DispatchSpec == Init /\ [][DispatchNext]_vars

\* ------------------------------------------------------------------------
\* The three waits, poll by poll
\* ------------------------------------------------------------------------
\* One call of wait_for_process_completion, verify_file_completion or
\* wait_for_zisk_resources, one action per pass of a loop.  What `ps`,
\* `[ -f ]`, `stat`, `netstat` and `ls` report is chosen freely at every
\* poll, or follows one of the environment inputs of the pipeline
\* (wEnv.scripted), as the operators WaitForProcessCompletion,
\* VerifyFileCompletion and WaitForZiskResources take them.

\* base_port (line 151); mo_port, mt_port and rh_port are the next three
BasePort == 23200

GateResources == << "mo_port", "mt_port", "rh_port" >>

PortOf(k) == BasePort + (k - 1)

GatePorts == { PortOf(k) : k \in DOMAIN GateResources }

\* ports a netstat listing may show, and ports for which ls may show a
\* ZISK_<port>_* file: those of the gate and a neighbour
Ports == GatePorts \cup {BasePort + 3}

\* max_wait of wait_for_zisk_resources (line 155) and its sleep (line 186)
MaxWait == 300
GateInterval == 10

\* defaults of verify_file_completion (lines 82-84) and the number of
\* stable checks it asks for (line 111)
DefaultMinSize == 1
DefaultVerifyTimeout == 60
CheckInterval == 2
StableChecks == 3

\* sizes `stat -c%s` may report at a poll (-1: the file does not exist)
Sizes == {-1, 0, 1, 2}

\* the environment of a call that is free at every poll
FreeEnv ==
    [scripted |-> FALSE, life |-> 0, busyFor |-> 0,
     file |-> [appear |-> 0, stop |-> 0, size |-> 0]]

\* `return rc` after logging line l
Return(rc, l) ==
    /\ wRet' = [rc |-> rc, log |-> l]
    /\ wAt' = "returned"
    /\ UNCHANGED << wElapsed, wClock >>

\* sleep n without the count: elapsed stays as it is
SleepWithoutCount(n) ==
    UNCHANGED << wElapsed, wClock, wRet >>

\* sleep n; elapsed=$((elapsed + n))
Sleep(n) ==
    /\ wElapsed' = wElapsed + n
    /\ wClock' = wClock + n
    /\ UNCHANGED wRet

\* what `ps -p` may report now
ObservedAlive == IF wEnv.scripted THEN {wClock < wEnv.life} ELSE BOOLEAN

\* what `[ -f ]` and `stat` may report now
ObservedSizes == IF wEnv.scripted THEN {SizeAt(wEnv.file, wClock)} ELSE Sizes

\* what netstat (ports listening) and ls (ports with a ZISK_* file) may
\* report now
ObservedPorts ==
    IF wEnv.scripted
    THEN {IF wClock < wEnv.busyFor THEN {BasePort} ELSE {}}
    ELSE SUBSET Ports

ObservedShm == IF wEnv.scripted THEN {{}} ELSE SUBSET Ports

\* a call of wait_for_process_completion with one of the step timeouts
BeginProcessWait ==
    /\ wKind = "none"
    /\ wKind' = "process"
    /\ wAt' = "poll"
    /\ \E s \in StepIds : wTimeout' = StepTimeout(s)
    /\ wEnv' \in {FreeEnv}
                 \cup { [FreeEnv EXCEPT !.scripted = TRUE, !.life = l] :
                        l \in Lifetimes }
    /\ UNCHANGED << wElapsed, wClock, wRet, wPrevSize, wStableCount, sameRun,
                    appeared, portsFree, gChecked, gSeen >>
    /\ UNCHANGED << scriptVars, dispatchVars, callVars, frontVars, foreign >>

\* lines 62-76: one pass of `while ps -p "$pid"`
WaitForProcessPoll ==
    /\ wKind = "process"
    /\ wAt = "poll"
    /\ \E alive \in ObservedAlive :
          IF alive
          THEN IF wElapsed >= wTimeout
               THEN Return(1, "timed out after")
               ELSE Sleep(2) /\ UNCHANGED wAt
          ELSE Return(0, "completed successfully")
    /\ UNCHANGED << wKind, wTimeout, wEnv, wPrevSize, wStableCount, sameRun,
                    appeared, portsFree, gChecked, gSeen >>
    /\ UNCHANGED << scriptVars, dispatchVars, callVars, frontVars, foreign >>

\* a call of verify_file_completion "$file" (line 226: defaults)
BeginVerify ==
    /\ wKind = "none"
    /\ wKind' = "file"
    /\ wAt' = "exist"
    /\ wTimeout' = DefaultVerifyTimeout
    /\ wEnv' \in {FreeEnv}
                 \cup { [FreeEnv EXCEPT !.scripted = TRUE, !.file = f] :
                        f \in FileBehaviours }
    /\ UNCHANGED << wElapsed, wClock, wRet, wPrevSize, wStableCount, sameRun,
                    appeared, portsFree, gChecked, gSeen >>
    /\ UNCHANGED << scriptVars, dispatchVars, callVars, frontVars, foreign >>

\* lines 90-93 without `[ $elapsed -lt $timeout ]`: the loop goes on for as
\* long as the file does not exist
VerifyExistPollNoTimeout ==
    /\ wKind = "file"
    /\ wAt = "exist"
    /\ \E sz \in ObservedSizes :
          /\ IF sz < 0
             THEN Sleep(CheckInterval) /\ UNCHANGED wAt
             ELSE wAt' = "check" /\ UNCHANGED << wElapsed, wClock, wRet >>
          /\ appeared' = (appeared \/ sz >= 0)
    /\ UNCHANGED << wKind, wTimeout, wEnv, wPrevSize, wStableCount, sameRun,
                    portsFree, gChecked, gSeen >>
    /\ UNCHANGED << scriptVars, dispatchVars, callVars, frontVars, foreign >>

\* lines 90-93: one pass of `while [ ! -f "$file_path" ] && ...`
VerifyExistPoll ==
    /\ wKind = "file"
    /\ wAt = "exist"
    /\ \E sz \in ObservedSizes :
          /\ IF sz < 0 /\ wElapsed < wTimeout
             THEN Sleep(CheckInterval) /\ UNCHANGED wAt
             ELSE wAt' = "check" /\ UNCHANGED << wElapsed, wClock, wRet >>
          /\ appeared' = (appeared \/ sz >= 0)
    /\ UNCHANGED << wKind, wTimeout, wEnv, wPrevSize, wStableCount, sameRun,
                    portsFree, gChecked, gSeen >>
    /\ UNCHANGED << scriptVars, dispatchVars, callVars, frontVars, foreign >>

\* lines 95-103 with the `if` of line 95 left out: the second loop is
\* entered whether or not the file exists
VerifyExistCheckSkipped ==
    /\ wKind = "file"
    /\ wAt = "check"
    /\ wAt' = "stable"
    /\ wElapsed' = 0
    /\ wPrevSize' = 0
    /\ wStableCount' = 0
    /\ UNCHANGED << wClock, wRet, appeared >>
    /\ UNCHANGED << wKind, wTimeout, wEnv, sameRun, portsFree, gChecked,
                    gSeen >>
    /\ UNCHANGED << scriptVars, dispatchVars, callVars, frontVars, foreign >>

\* lines 95-103: `if [ ! -f "$file_path" ]`, then the locals of the second
\* loop
VerifyExistCheck ==
    /\ wKind = "file"
    /\ wAt = "check"
    /\ \E sz \in ObservedSizes :
          /\ IF sz < 0
             THEN /\ Return(1, "was not created")
                  /\ UNCHANGED << wPrevSize, wStableCount >>
             ELSE /\ wAt' = "stable"
                  /\ wElapsed' = 0
                  /\ wPrevSize' = 0
                  /\ wStableCount' = 0
                  /\ UNCHANGED << wClock, wRet >>
          /\ appeared' = (appeared \/ sz >= 0)
    /\ UNCHANGED << wKind, wTimeout, wEnv, sameRun, portsFree, gChecked,
                    gSeen >>
    /\ UNCHANGED << scriptVars, dispatchVars, callVars, frontVars, foreign >>

\* lines 108-118 without the else-branch of line 115: a changed size does
\* not reset stable_count
NextStableCountNoReset(currentSize) ==
    IF currentSize >= DefaultMinSize /\ currentSize = wPrevSize
    THEN wStableCount + 1
    ELSE wStableCount

\* lines 108-118 without the test of line 108: any size equal to the
\* previous one counts
NextStableCountNoMin(currentSize) ==
    IF currentSize = wPrevSize THEN wStableCount + 1 ELSE 0

\* stable_count after a poll that read currentSize (lines 108-118)
NextStableCount(currentSize) ==
    IF currentSize >= DefaultMinSize
    THEN IF currentSize = wPrevSize THEN wStableCount + 1 ELSE 0
    ELSE wStableCount

\* lines 105-130: one pass of the second loop, or its end.  The function
\* returns 0 from the pass in which stable_count was incremented to 3.
VerifyStablePoll ==
    /\ wKind = "file"
    /\ wAt = "stable"
    /\ IF wElapsed < wTimeout
       THEN \E sz \in ObservedSizes :
               LET currentSize == IF sz < 0 THEN 0 ELSE sz
                   newCount == NextStableCount(currentSize)
               IN  /\ sameRun' = (IF sameRun > 0 /\ currentSize = wPrevSize
                                  THEN sameRun + 1 ELSE 1)
                   /\ wStableCount' = newCount
                   /\ IF newCount = wStableCount + 1
                         /\ newCount >= StableChecks
                      THEN Return(0, "verified") /\ UNCHANGED wPrevSize
                      ELSE /\ wPrevSize' = currentSize
                           /\ Sleep(CheckInterval)
                           /\ UNCHANGED wAt
       ELSE /\ Return(1, "did not stabilize")
            /\ UNCHANGED << wPrevSize, wStableCount, sameRun >>
    /\ UNCHANGED << wKind, wTimeout, wEnv, appeared, portsFree, gChecked,
                    gSeen >>
    /\ UNCHANGED << scriptVars, dispatchVars, callVars, frontVars, foreign >>

\* a call of wait_for_zisk_resources
BeginGate ==
    /\ wKind = "none"
    /\ wKind' = "gate"
    /\ wAt' = "poll"
    /\ wTimeout' = MaxWait
    /\ wEnv' \in {FreeEnv}
                 \cup { [FreeEnv EXCEPT !.scripted = TRUE, !.busyFor = g] :
                        g \in GateDelays }
    /\ UNCHANGED << wElapsed, wClock, wRet, wPrevSize, wStableCount, sameRun,
                    appeared, portsFree, gChecked, gSeen >>
    /\ UNCHANGED << scriptVars, dispatchVars, callVars, frontVars, foreign >>

\* lines 160-162: `while [ $elapsed -lt $max_wait ]`, ports_free=true; after
\* the loop lines 190-191
GateLoopHead ==
    /\ wKind = "gate"
    /\ wAt = "poll"
    /\ IF wElapsed < wTimeout
       THEN /\ wAt' = "netstat"
            /\ portsFree' = TRUE
            /\ gChecked' = {}
            /\ gSeen' = {}
            /\ UNCHANGED << wElapsed, wClock, wRet >>
       ELSE /\ Return(1, "Timeout waiting for ZisK resources")
            /\ UNCHANGED << portsFree, gChecked, gSeen >>
    /\ UNCHANGED << wKind, wTimeout, wEnv, wPrevSize, wStableCount, sameRun,
                    appeared >>
    /\ UNCHANGED << scriptVars, dispatchVars, callVars, frontVars, foreign >>

\* GateNetstat that looks at mo_port only
GateNetstatFirstOnly ==
    /\ wKind = "gate"
    /\ wAt = "netstat"
    /\ \E listing \in ObservedPorts :
          LET hit == PortOf(1) \in listing
          IN  /\ gChecked' = gChecked \cup {GateResources[1]}
              /\ gSeen' = (IF hit THEN gSeen \cup {GateResources[1]}
                                  ELSE gSeen)
              /\ portsFree' = (portsFree /\ ~hit)
              /\ wAt' = "shm"
    /\ UNCHANGED << wElapsed, wClock, wRet >>
    /\ UNCHANGED << wKind, wTimeout, wEnv, wPrevSize, wStableCount, sameRun,
                    appeared >>
    /\ UNCHANGED << scriptVars, dispatchVars, callVars, frontVars, foreign >>

\* lines 164-168: the next `netstat -tln | grep -q ":$port "` of the ||
\* list; the list ends at the first grep that matches
GateNetstat ==
    /\ wKind = "gate"
    /\ wAt = "netstat"
    /\ \E listing \in ObservedPorts :
          LET k == Cardinality(gChecked) + 1
              hit == PortOf(k) \in listing
          IN  /\ gChecked' = gChecked \cup {GateResources[k]}
              /\ gSeen' = (IF hit THEN gSeen \cup {GateResources[k]}
                                  ELSE gSeen)
              /\ portsFree' = (portsFree /\ ~hit)
              /\ wAt' = (IF hit \/ k = Len(GateResources) THEN "shm"
                                                           ELSE "netstat")
    /\ UNCHANGED << wElapsed, wClock, wRet >>
    /\ UNCHANGED << wKind, wTimeout, wEnv, wPrevSize, wStableCount, sameRun,
                    appeared >>
    /\ UNCHANGED << scriptVars, dispatchVars, callVars, frontVars, foreign >>

\* lines 171-173: ls /dev/shm/ZISK_* | grep for the three ports
GateShm ==
    /\ wKind = "gate"
    /\ wAt = "shm"
    /\ \E names \in ObservedShm :
          LET hit == names \cap GatePorts # {}
          IN  /\ gChecked' = gChecked \cup {"shm"}
              /\ gSeen' = (IF hit THEN gSeen \cup {"shm"} ELSE gSeen)
              /\ portsFree' = (portsFree /\ ~hit)
    /\ wAt' = "decide"
    /\ UNCHANGED << wElapsed, wClock, wRet >>
    /\ UNCHANGED << wKind, wTimeout, wEnv, wPrevSize, wStableCount, sameRun,
                    appeared >>
    /\ UNCHANGED << scriptVars, dispatchVars, callVars, frontVars, foreign >>

\* lines 175-187: `if $ports_free` return 0, else sleep 10
GateDecide ==
    /\ wKind = "gate"
    /\ wAt = "decide"
    /\ IF portsFree
       THEN Return(0, "ZisK resources are available")
       ELSE Sleep(GateInterval) /\ wAt' = "poll"
    /\ UNCHANGED << wKind, wTimeout, wEnv, wPrevSize, wStableCount, sameRun,
                    appeared, portsFree, gChecked, gSeen >>
    /\ UNCHANGED << scriptVars, dispatchVars, callVars, frontVars, foreign >>

WaitNext ==
    \/ BeginProcessWait
    \/ WaitForProcessPoll
    \/ BeginVerify
    \/ VerifyExistPoll
    \/ VerifyExistCheck
    \/ VerifyStablePoll
    \/ BeginGate
    \/ GateLoopHead
    \/ GateNetstat
    \/ GateShm
    \/ GateDecide

\* one call of one of the three waits
WaitSpec == Init /\ [][WaitNext]_vars

\* the operators WaitForProcessCompletion, VerifyFileCompletion and
\* WaitForZiskResources return what the loops return, poll by poll, in the
\* environments they are evaluated on
WaitAgrees ==
    wAt = "returned" /\ wEnv.scripted
    => CASE wKind = "process" ->
              wRet.rc = WaitForProcessCompletion(wEnv.life, wTimeout)
         [] wKind = "file" ->
              wRet = VerifyFileCompletion(wEnv.file, DefaultMinSize, wTimeout)
         [] wKind = "gate" ->
              wRet.rc = WaitForZiskResources(wEnv.busyFor)

\* the commands run r executes itself (no signal, no other process)
RunStep(r) ==
    \/ Start(r)
    \/ CheckLock(r)
    \/ ReadPid(r)
    \/ CheckPid(r)
    \/ RemoveStale(r)
    \/ CreateLock(r)
    \/ SetTrap(r)
    \/ Preflight(r)
    \/ Launch(r)
    \/ Complete(r)
    \/ Gate(r)
    \/ PreCleanup(r)
    \/ ProofCheck(r)
    \/ CleanupLock(r)
    \/ CleanupZisk(r)

\* a behaviour is one run of the script, or one call of one of its waits
TermNext ==
    \/ wKind = "none" /\ PipeNext
    \/ (\A r \in Runs : pc[r] = "idle") /\ WaitNext

\* the shell goes on to its next command and every sleep returns: a run
\* that can execute a command does so, a wait that can poll does so
TermSpec ==
    /\ Init
    /\ [][TermNext]_vars
    /\ WF_vars(wKind = "none" /\ RunStep(1))
    /\ WF_vars((\A r \in Runs : pc[r] = "idle") /\ WaitNext)

\* ------------------------------------------------------------------------
\* A run in an environment where nothing goes wrong
\* ------------------------------------------------------------------------
\* a proof generation on another port range is started by the same user
ForeignStart ==
    /\ ~foreign.prover
    /\ foreign' = [prover |-> TRUE, shm |-> TRUE]
    /\ UNCHANGED << scriptVars, dispatchVars, waitVars, callVars, frontVars >>

\* its prover ends; the ZISK_* files it made stay where they are
ForeignEnd ==
    /\ foreign.prover
    /\ foreign' = [foreign EXCEPT !.prover = FALSE]
    /\ UNCHANGED << scriptVars, dispatchVars, waitVars, callVars, frontVars >>

\* lifetimes of a process that ends within the timeout of step s
GoodLives(s) == { l \in Lifetimes : l <= StepTimeout(s) }

\* files that reach a final size of at least one byte early enough for the
\* four reads that verify_file_completion needs
GoodFiles ==
    { f \in FileBehaviours :
        /\ f.size >= DefaultMinSize
        /\ f.appear <= f.stop
        /\ f.stop + (StableChecks + 1) * CheckInterval
              <= DefaultVerifyTimeout }

\* the ports and the shared memory are free before the gate gives up
GoodDelays == { d \in GateDelays : d < MaxWait }

\* one command of a run that is given its score and its directory, whose
\* steps all exit 0 in time and leave their files, and whose gate sees the
\* resources free in time; no signal arrives
GoodRun(r) ==
    \/ Start(r)
    \/ CheckLock(r)
    \/ ReadPid(r)
    \/ CheckPid(r)
    \/ RemoveStale(r)
    \/ CreateLock(r)
    \/ SetTrap(r)
    \/ PreflightWith(r, "ok")
    \/ Launch(r)
    \/ /\ pc[r] = "wait"
       /\ \E life \in GoodLives(cur[r]), file \in GoodFiles :
             CompleteWith(r, life, 0, file)
    \/ \E busyFor \in GoodDelays : GateWith(r, busyFor)
    \/ PreCleanup(r)
    \/ ProofCheckWith(r, "ok")
    \/ CleanupLock(r)
    \/ CleanupZisk(r)

GoodNext ==
    \/ GoodRun(1)
    \/ ForeignStart
    \/ ForeignEnd

\* the shell goes on to its next command
GoodSpec == Init /\ [][GoodNext]_vars /\ WF_vars(GoodRun(1))

\* ------------------------------------------------------------------------
\* A run in its main sequence and a second run that arrives
\* ------------------------------------------------------------------------
\* run 1 takes its main sequence step by step; run 2 is started at any time
\* and goes through the lock lines, up to its main sequence if it gets past
\* them
PairNext ==
    \/ PipeNext
    \/ \E r \in {2} :
        \/ Start(r)
        \/ CheckLock(r)
        \/ ReadPid(r)
        \/ CheckPid(r)
        \/ RemoveStale(r)
        \/ CreateLock(r)
        \/ SetTrap(r)

PairSpec == Init /\ [][PairNext]_vars

\* ------------------------------------------------------------------------
\* A run next to a proof generation on another port range
\* ------------------------------------------------------------------------
ShareNext ==
    \/ PipeNext
    \/ ForeignStart
    \/ ForeignEnd

ShareSpec == Init /\ [][ShareNext]_vars

\* ------------------------------------------------------------------------
\* cleanup called twice (lines 42-48)
\* ------------------------------------------------------------------------
\* the function cleanup is called a second time after it has run once, to
\* its last command
Recleanup(r) ==
    /\ pc[r] = "exited"
    /\ Count(r, Msg("Cleaning up lock file", 0, 0)) = 1
    /\ log[r][Len(log[r])] = Msg("Cleaning up ZisK processes and resources",
                                 0, 0)
    /\ pc' = [pc EXCEPT ![r] = "cleanup_lock"]
    /\ UNCHANGED << dispatchVars, waitVars, callVars, frontVars, foreign >>
    /\ UNCHANGED << lockFile, readPid, sawStale, failed, acquired, trapSet,
                    cur, procs, launched, timedOut, failedStep, outcome,
                    exitCode, zshm, log >>

TwiceNext ==
    \/ PipeNext
    \/ Recleanup(1)

TwiceSpec == Init /\ [][TwiceNext]_vars

\* ------------------------------------------------------------------------
\* One call of execute_with_completion_check (lines 195-235)
\* ------------------------------------------------------------------------
\* the function is called once, for any step, with a process that is still
\* there or was killed before the wait, and that behaves in any of the
\* modelled ways; the arguments and the result are kept
CallExecute ==
    /\ eArgs.step = 0
    /\ \E alive \in BOOLEAN, s \in StepIds, life \in Lifetimes,
          status \in ExitStatuses, file \in FileBehaviours :
          /\ eArgs' = [alive |-> alive, step |-> s, life |-> life,
                       status |-> status, file |-> file]
          /\ eRes' = ExecuteWithCompletionCheck(alive, s, life, status, file)
    /\ UNCHANGED << scriptVars, dispatchVars, waitVars, foreign, frontVars >>

StepSpec == Init /\ [][CallExecute]_vars

\* ------------------------------------------------------------------------
\* Properties
\* ------------------------------------------------------------------------
\* the step of run r is one the script takes itself, not a signal
Signals == {"sigterm", "sigkill"}

Moved(r) == pc'[r] # pc[r] /\ outcome'[r] \notin Signals

\* C1: at most one run is between lock acquisition (line 38) and lock
\* release (line 44) at any instant
C1_MutualExclusion ==
    \A r1, r2 \in Runs : r1 # r2 => ~(Held(r1) /\ Held(r2))

\* C2: a run that reads a lock record whose PID is alive exits at once with
\* status 1, launches no step, and leaves the lock file as it is; a run
\* rejected this way never wrote the lock nor installed the trap
C2_BusyImmediately ==
    /\ [][\A r \in Runs :
            (pc[r] = "check_pid" /\ Moved(r)
             /\ readPid[r] # 0 /\ Alive(readPid[r]))
            => /\ pc'[r] = "exited"
               /\ exitCode'[r] = 1
               /\ outcome'[r] = "busy"
               /\ launched'[r] = << >>
               /\ lockFile' = lockFile]_vars
    /\ [](\A r \in Runs :
            outcome[r] = "busy"
            => /\ pc[r] = "exited"
               /\ exitCode[r] = 1
               /\ launched[r] = << >>
               /\ ~acquired[r]
               /\ ~trapSet[r])

\* a run was rejected as busy while the holder it saw is still in its
\* main sequence
C2_Witness ==
    \E r, h \in Runs :
        /\ outcome[r] = "busy"
        /\ pc[h] = "preflight"
        /\ lockFile = [exists |-> TRUE, pid |-> h]

\* C3: a run that reads a record whose PID is dead, or an empty record,
\* does not exit: it removes the lock file, writes its own PID as the new
\* record, installs the trap and enters the main sequence
C3_StaleReclaimed ==
    /\ [][\A r \in Runs :
            /\ (pc[r] = "check_pid" /\ Moved(r)
                /\ ~(readPid[r] # 0 /\ Alive(readPid[r])))
               => (pc'[r] = "rm_stale" /\ sawStale'[r]
                   /\ outcome'[r] = "none")
            /\ (pc[r] = "rm_stale" /\ Moved(r))
               => (lockFile' = NoLock /\ pc'[r] = "create_lock")
            /\ (pc[r] = "create_lock" /\ Moved(r))
               => (lockFile' = [exists |-> TRUE, pid |-> r]
                   /\ pc'[r] = "set_trap")
            /\ (pc[r] = "set_trap" /\ Moved(r))
               => pc'[r] = "preflight"]_vars
    /\ [](\A r \in Runs : sawStale[r] => outcome[r] # "busy")

\* a run that found the record of a dead run has reclaimed the lock and is
\* in its main sequence
C3_Witness ==
    \E r, d \in Runs :
        /\ sawStale[r]
        /\ pc[r] = "preflight"
        /\ lockFile = [exists |-> TRUE, pid |-> r]
        /\ acquired[d]
        /\ pc[d] = "exited"
        /\ outcome[d] \in Signals

\* C4: once a run that acquired the lock has terminated, whatever the exit
\* path, its lock record is gone
C4_ReleasedOnEveryExit ==
    \A r \in Runs :
        (pc[r] = "exited" /\ acquired[r])
        => ~(lockFile.exists /\ lockFile.pid = r)

\* C5: at most one Job is in_progress at any instant
C5_OneInProgress ==
    Cardinality({ j \in JobIds : jobState[j] = "in_progress" }) <= 1

\* one job runs while another accepted job waits in pending
C5_Witness ==
    \E j1, j2 \in JobIds :
        jobState[j1] = "in_progress" /\ jobState[j2] = "pending"

\* C6 as stated: a submission of a triple inside the window of its last
\* accepted submission is rejected as Duplicate, and one after the window
\* yields a Job
C6_AsStated ==
    /\ reply.window = "inside" => reply.kind = "duplicate"
    /\ reply.window = "outside" => reply.kind = "job"

\* C6 amended: inside the window the submission is rejected as Duplicate
\* and creates no Job; after the window it is not a Duplicate: it yields a
\* second Job unless the dispatcher is Busy, in which case it is rejected
\* as Busy
C6_DedupWindow ==
    /\ [](reply.window = "inside" => reply.kind = "duplicate")
    /\ [](reply.window = "outside"
            => reply.kind = (IF reply.busy THEN "busy" ELSE "job"))
    /\ [][\A j \in JobIds :
            (jobState[j] = "none" /\ jobState'[j] # "none")
            => /\ jobState'[j] = "pending"
               /\ reply'.kind = "job"
               /\ reply'.key = jobKey'[j]
               /\ Window(jobKey'[j]) # "inside"
               /\ \A i \in JobIds \ {j} : jobState'[i] = jobState[i]]_vars

\* the same triple has two Jobs (the second one submitted after the window)
\* and a further submission of it has just been rejected as Duplicate
C6_Witness ==
    /\ reply.kind = "duplicate"
    /\ \E j1, j2 \in JobIds :
          /\ j1 # j2
          /\ jobState[j1] # "none"
          /\ jobState[j2] # "none"
          /\ jobKey[j1] = reply.key
          /\ jobKey[j2] = reply.key

\* C7: a Job's state changes only along
\* none -> pending -> in_progress -> {completed, failed, timeout}
C7_JobTransitions ==
    [][\A j \in JobIds :
         jobState'[j] # jobState[j]
         => \/ jobState[j] = "none" /\ jobState'[j] = "pending"
            \/ jobState[j] = "pending" /\ jobState'[j] = "in_progress"
            \/ jobState[j] = "in_progress"
               /\ jobState'[j] \in TerminalStates]_vars

\* one Job has reached a terminal state while a later one is in progress
C7_Witness ==
    \E j1, j2 \in JobIds :
        jobState[j1] \in TerminalStates /\ jobState[j2] = "in_progress"

\* C8: the steps are launched in program order and no two step processes of
\* a run are alive at the same time
C8_StepsSequential ==
    \A r \in Runs :
        /\ \A i \in 1 .. Len(launched[r]) : launched[r][i] = i
        /\ Cardinality(procs[r]) <= 1

\* C9: a step reported as timed out has no live process
C9_TimeoutKills ==
    \A r \in Runs : \A s \in timedOut[r] : s \notin procs[r]

\* C10: once execute_with_completion_check has returned 1 for a fatal step,
\* that step is the last one launched, the run is exiting with a non-zero
\* status, and the logged "Step N failed" names that step
C10_FatalStops ==
    \A r \in Runs : \A s \in failed[r] \cap FatalSteps :
        /\ launched[r][Len(launched[r])] = s
        /\ pc[r] \in {"cleanup_lock", "cleanup_zisk", "exited"}
        /\ exitCode[r] \notin {-1, 0}
        /\ failedStep[r] = s

\* a run has ended after its fatal step 2 failed
C10_Witness ==
    \E r \in Runs :
        /\ 2 \in failed[r]
        /\ pc[r] = "exited"
        /\ outcome[r] = "step_failed"
\* C11: when execute_with_completion_check returns 1 for ROM setup,
\* emulation or proof verification, no "Step N failed" is logged and the run
\* goes on to launch the next step (through the resource gate before the
\* prover); after the last step it ends with "All steps executed
\* successfully" and exit status 0
C11_NonFatalTolerated ==
    [][\A r \in Runs : \A s \in (failed'[r] \ failed[r]) \ FatalSteps :
          /\ failedStep'[r] = failedStep[r]
          /\ IF s = NumSteps
             THEN /\ outcome'[r] = "success"
                  /\ exitCode'[r] = 0
                  /\ log'[r][Len(log'[r])] = ExitMessage("success", 0)
             ELSE /\ pc'[r] = (IF s = ProveStep - 1 THEN "gate" ELSE "launch")
                  /\ cur'[r] = s + 1
                  /\ outcome'[r] = "none"
                  /\ exitCode'[r] = -1]_vars

\* a run has ended with exit status 0 after all six steps were launched and
\* every non-fatal step failed
C11_Witness ==
    \E r \in Runs :
        /\ pc[r] = "exited"
        /\ outcome[r] = "success"
        /\ exitCode[r] = 0
        /\ failed[r] = StepIds \ FatalSteps
        /\ launched[r] = [i \in StepIds |-> i]

\* C12: a run that ends with exit status 0 has had no fatal step fail: each
\* of them completed, the resource gate reported the resources available,
\* verify_file_completion verified proof/vadcop_final_proof.bin after the
\* prover, and the [ -s ] test of line 334 found the file non-empty
C12_SuccessMeans ==
    \A r \in Runs :
        exitCode[r] = 0
        => /\ outcome[r] = "success"
           /\ failed[r] \cap FatalSteps = {}
           /\ \A s \in FatalSteps : InLog(r, Msg("completed successfully", s, 0))
           /\ InLog(r, Msg("ZisK resources are available", 0, 0))
           /\ InLog(r, Msg("verified", ProveStep, 0))
           /\ InLog(r, Msg("Proof file generated successfully", 0, 0))

\* a run has ended with exit status 0 and no step failed at all
C12_Witness ==
    \E r \in Runs :
        /\ pc[r] = "exited"
        /\ exitCode[r] = 0
        /\ failed[r] = {}
        /\ InLog(r, Msg("verified", ProveStep, 0))

\* C13: cleanup (lines 42-48, the EXIT trap) never runs twice in a run, does
\* not run in a run that did not write the lock, and has run exactly once,
\* through both of its commands, when a run has left through any exit
\* statement of the main sequence: after the last step, after a failed
\* fatal step or after a step that timed out
C13_CleanupOnce ==
    \A r \in Runs :
        LET n == Count(r, Msg("Cleaning up lock file", 0, 0))
        IN  /\ n <= 1
            /\ ~acquired[r] => n = 0
            /\ pc[r] = "exited" /\ outcome[r] \in MainExits
               => /\ acquired[r]
                  /\ n = 1
                  /\ log[r][Len(log[r])]
                       = Msg("Cleaning up ZisK processes and resources", 0, 0)

\* a run has ended after its prover timed out, and cleanup has run
C13_Witness ==
    \E r \in Runs :
        /\ pc[r] = "exited"
        /\ outcome[r] = "step_failed"
        /\ failedStep[r] = ProveStep
        /\ ProveStep \in timedOut[r]
        /\ Count(r, Msg("Cleaning up lock file", 0, 0)) = 1

\* exit statuses that line 219 can quote in the model: that of the step's
\* process, or 143 if it was ended by a pkill
QuotedStatuses == (ExitStatuses \ {0}) \cup {143}

HasLaunched(r, s) == \E i \in DOMAIN launched[r] : launched[r][i] = s

\* C19: once wait_for_zisk_resources has timed out the run logs "Cannot
\* proceed with proof generation - resources unavailable", is on its way
\* out with a non-zero exit status and has not launched the prover; and a
\* run that has launched the prover has had the gate report the resources
\* available before, without a timeout
C19_GateTimeoutAborts ==
    \A r \in Runs :
        /\ InLog(r, Msg("Timeout waiting for ZisK resources", 0, 0))
           => /\ InLog(r, ExitMessage("resources_unavailable", 0))
              /\ pc[r] \in {"cleanup_lock", "cleanup_zisk", "exited"}
              /\ exitCode[r] \notin {-1, 0}
              /\ ~HasLaunched(r, ProveStep)
        /\ HasLaunched(r, ProveStep)
           => /\ InLog(r, Msg("ZisK resources are available", 0, 0))
              /\ ~InLog(r, Msg("Timeout waiting for ZisK resources", 0, 0))

\* a run has ended on the resources-unavailable path after launching the
\* four steps before the gate
C19_Witness ==
    \E r \in Runs :
        /\ pc[r] = "exited"
        /\ outcome[r] = "resources_unavailable"
        /\ exitCode[r] = 1
        /\ launched[r] = [i \in 1 .. ProveStep - 1 |-> i]

\* C20: a run that has launched a step has had the resource gate report the
\* resources available before
C20_GateBeforeFirstStep ==
    \A r \in Runs :
        launched[r] # << >>
        => InLog(r, Msg("ZisK resources are available", 0, 0))

\* C15: verify_file_completion returns 0 ("verified") only from a poll that
\* ends a run of at least 3 consecutive polls that read one same size, of
\* at least the minimum; a poll that reads another such size leaves
\* stable_count at 0; and a call that reaches its return with fewer than 3
\* equal reads in a row, the file existing, returns 1 with "did not
\* stabilize" after the whole timeout
C15_StableAfterThree ==
    wKind = "file"
    => /\ wRet.log = "verified"
          => /\ wRet.rc = 0
             /\ sameRun >= StableChecks
             /\ wPrevSize >= DefaultMinSize
       /\ wAt = "stable" /\ sameRun = 1 /\ wPrevSize >= DefaultMinSize
          => wStableCount = 0
       /\ wAt = "returned" /\ sameRun < StableChecks
             /\ wRet.log # "was not created"
          => /\ wRet = [rc |-> 1, log |-> "did not stabilize"]
             /\ wElapsed >= wTimeout

\* the file was verified after more polls than the four a file complete
\* from the start needs: some poll read a different size or none
C15_Witness ==
    /\ wKind = "file"
    /\ ~wEnv.scripted
    /\ wRet.log = "verified"
    /\ wElapsed > 2 * StableChecks
    /\ wPrevSize = 2

\* C16: verify_file_completion ends with one of three lines; the two that
\* go with return 1 differ: "was not created" is the one logged when no
\* [ -f ] test of the call found the file, which then was polled for the
\* whole timeout, and "did not stabilize" is logged only for a file that
\* was found, after the second loop used up the timeout
C16_MissingOrUnstable ==
    wKind = "file" /\ wAt = "returned"
    => /\ wRet.log \in {"verified", "was not created", "did not stabilize"}
       /\ wRet.rc = (IF wRet.log = "verified" THEN 0 ELSE 1)
       /\ ~appeared => wRet.log = "was not created" /\ wClock >= wTimeout
       /\ wRet.log = "did not stabilize"
          => appeared /\ wElapsed >= wTimeout

\* a file that exists was given up as not stabilized while its size was
\* still changing
C16_Witness ==
    /\ wKind = "file"
    /\ ~wEnv.scripted
    /\ wAt = "returned"
    /\ wRet.log = "did not stabilize"
    /\ sameRun = 1

\* C17: a call of any of the three waits returns, its `elapsed` never
\* beyond its timeout (so after at most timeout / interval + 1 polls), and
\* a run that was started exits
C17_Terminates ==
    /\ [](wElapsed <= wTimeout)
    /\ (wKind # "none") ~> (wAt = "returned")
    /\ (pc[1] # "idle") ~> (pc[1] = "exited")

\* the prover was waited for until its timeout and the run has exited
C17_Witness ==
    /\ pc[1] = "exited"
    /\ ProveStep \in timedOut[1]
    /\ outcome[1] = "step_failed"

\* C18: wait_for_zisk_resources returns 0 only from a pass of its loop in
\* which each of the three netstat listings and the ls listing was looked
\* at and none showed the port, or a ZISK_<port>_ file, of the gate
C18_ReadyMeansAllFree ==
    wKind = "gate"
    => /\ gSeen # {} => ~portsFree
       /\ wRet.rc = 0
          => /\ gChecked = { GateResources[k] : k \in DOMAIN GateResources }
                            \cup {"shm"}
             /\ gSeen = {}
             /\ wElapsed < wTimeout

\* the gate has returned 0 after at least one pass that found a resource
\* busy
C18_Witness ==
    /\ wKind = "gate"
    /\ ~wEnv.scripted
    /\ wRet.rc = 0
    /\ wElapsed > 0

\* C21: execute_with_completion_check returns 0 only if the process was
\* there, ended within the step's timeout, exited with status 0 and, for a
\* step with an expected file, verify_file_completion accepted the file; a
\* non-zero exit status gives 1 whatever the file looks like, and a file
\* that is not accepted gives 1 although the exit status is 0
C21_StepSucceedsOnlyIf ==
    eArgs.step # 0
    => LET verdict == VerifyFileCompletion(eArgs.file, DefaultMinSize,
                                           DefaultVerifyTimeout)
       IN  /\ eRes.rc \in {0, 1}
           /\ eRes.rc = 0
              => /\ eArgs.alive
                 /\ eArgs.life <= StepTimeout(eArgs.step)
                 /\ eArgs.status = 0
                 /\ HasExpectedFile(eArgs.step) => verdict.rc = 0
           /\ eArgs.status # 0 => eRes.rc = 1
           /\ (HasExpectedFile(eArgs.step) /\ verdict.rc # 0) => eRes.rc = 1

\* a process that exits 1 in time and leaves a complete file: the step fails
C21_Witness ==
    /\ eArgs.step = 1
    /\ eArgs.alive
    /\ eArgs.life = ShortLife
    /\ eArgs.status = 1
    /\ eArgs.file = [appear |-> 0, stop |-> 0, size |-> 64]
    /\ eRes = [rc |-> 1, running |-> FALSE, why |-> "status"]

\* C22: once cleanup has run to its end, none of the processes that the run
\* started for its steps is alive, a step process that outlived its timeout
\* included
C22_NoSurvivorAfterCleanup ==
    \A r \in Runs :
        (pc[r] = "exited"
         /\ InLog(r, Msg("Cleaning up lock file", 0, 0))
         /\ outcome[r] \in MainExits)
        => procs[r] = {}

\* C23: a second call of cleanup, made after a first one, changes neither
\* the lock file nor the step processes nor the ZISK_* files, and runs to its
\* end without changing the exit status
C23_CleanupIdempotent ==
    [][\A r \in Runs :
          LET calls == Count(r, Msg("Cleaning up lock file", 0, 0))
          IN  /\ (pc[r] = "cleanup_lock" /\ calls = 1 /\ log'[r] # log[r])
                 => /\ pc'[r] = "cleanup_zisk"
                    /\ UNCHANGED << lockFile, procs, zshm, foreign,
                                    exitCode >>
              /\ (pc[r] = "cleanup_zisk" /\ calls = 2 /\ log'[r] # log[r])
                 => /\ pc'[r] = "exited"
                    /\ UNCHANGED << lockFile, procs, zshm, foreign,
                                    exitCode >>]_vars

\* cleanup has run twice for a run that had acquired the lock
C23_Witness ==
    /\ pc[1] = "exited"
    /\ acquired[1]
    /\ Count(1, Msg("Cleaning up lock file", 0, 0)) = 2
    /\ Count(1, Msg("Cleaning up ZisK processes and resources", 0, 0)) >= 2
    /\ ~lockFile.exists

\* C24: the commands of cleanup leave the exit status and the exit path of
\* the run as the main sequence decided them, also when the lock file is
\* already gone, no process matches the pkill patterns and no ZISK_* file
\* is left to delete
C24_CleanupKeepsOutcome ==
    [][\A r \in Runs :
          (pc[r] \in {"cleanup_lock", "cleanup_zisk"} /\ log'[r] # log[r])
          => /\ exitCode'[r] = exitCode[r]
             /\ outcome'[r] = outcome[r]
             /\ exitCode[r] # -1
             /\ pc'[r] = (IF pc[r] = "cleanup_lock" THEN "cleanup_zisk"
                          ELSE "exited")]_vars

\* two runs have both gone through cleanup with exit status 0: the second
\* `rm -f` found no lock file, and neither pkill found a process
C24_Witness ==
    /\ \A r \in {1, 2} :
          /\ pc[r] = "exited"
          /\ outcome[r] = "success"
          /\ exitCode[r] = 0
          /\ log[r][Len(log[r])]
                = Msg("Cleaning up ZisK processes and resources", 0, 0)
    /\ ~lockFile.exists

\* C25: with the lock free, the resources free within the wait of the gate,
\* every step exiting 0 within its timeout and every expected file settling,
\* a run that was started ends with exit status 0, having verified and
\* reported the proof file
C25_EventuallySucceeds ==
    (pc[1] # "idle")
    ~> /\ pc[1] = "exited"
       /\ exitCode[1] = 0
       /\ failed[1] = {}
       /\ InLog(1, Msg("Proof file generated successfully", 0, 0))
       /\ InLog(1, ExitMessage("success", 0))

\* the run has ended that way, all six steps launched
C25_Witness ==
    /\ pc[1] = "exited"
    /\ exitCode[1] = 0
    /\ Len(launched[1]) = NumSteps
    /\ InLog(1, Msg("verified", ProveStep, 0))
    /\ InLog(1, ExitMessage("success", 0))
    /\ ~lockFile.exists

\* C26: while a run that wrote the lock file is alive and has not begun to
\* exit, the lock file exists and holds the PID of that run
C26_HolderRecordKept ==
    \A r \in Runs :
        (Held(r) /\ pc[r] # "cleanup_lock")
        => lockFile = [exists |-> TRUE, pid |-> r]

\* C27: the exit of a run that found a live holder leaves the lock file,
\* every step process and every ZISK_* file as they were; the run is gone
\* at once and has never run a command of cleanup, the trap being set only
\* by runs that have written the lock file
C27_BusyChangesNothing ==
    /\ [][\A r \in Runs :
            (outcome'[r] = "busy" /\ outcome[r] # "busy")
            => /\ pc'[r] = "exited"
               /\ UNCHANGED << lockFile, procs, zshm, foreign, log >>]_vars
    /\ [](\A r \in Runs :
            /\ outcome[r] = "busy" => (pc[r] = "exited" /\ log[r] = << >>)
            /\ trapSet[r] => acquired[r])

\* run 2 was rejected while run 1 waits for its prover: record, prover and
\* shared memory of run 1 are in place
C27_Witness ==
    /\ outcome[2] = "busy"
    /\ pc[2] = "exited"
    /\ pc[1] = "wait"
    /\ ProveStep \in procs[1]
    /\ zshm
    /\ lockFile = [exists |-> TRUE, pid |-> 1]

\* C28: the commands of cleanup_zisk_processes, on line 317 and in cleanup,
\* leave the prover and the ZISK_* files of a proof generation that uses
\* another port range as they are
C28_CleanupLeavesOthers ==
    [][\A r \in Runs :
          (pc[r] \in {"pre_cleanup", "cleanup_zisk"} /\ log'[r] # log[r])
          => foreign' = foreign]_vars

\* C29: a poll of the second loop of verify_file_completion that reads a
\* size below the minimum leaves stable_count as it is and does not return;
\* the size last read when the function returns 0 is at least the minimum;
\* and for a file that stays empty the function never returns 0
C29_BelowMinNeverStable ==
    /\ [][(wKind = "file" /\ wAt = "stable" /\ wClock' > wClock
           /\ wPrevSize' < DefaultMinSize)
          => (wStableCount' = wStableCount /\ wAt' = "stable")]_vars
    /\ [](wKind = "file"
          => /\ wRet.rc = 0 => wPrevSize >= DefaultMinSize
             /\ (wEnv.scripted /\ wEnv.file.size < DefaultMinSize
                 /\ wEnv.file.stop <= wEnv.file.appear)
                => wRet.rc # 0)

\* an empty file was read with the same size, 0, poll after poll until the
\* timeout and was not accepted
C29_Witness ==
    /\ wKind = "file"
    /\ wAt = "returned"
    /\ wEnv.scripted
    /\ wEnv.file.size = 0
    /\ wRet = [rc |-> 1, log |-> "did not stabilize"]
    /\ wPrevSize = 0
    /\ sameRun > StableChecks
    /\ wStableCount = 0

\* C30 as stated: the seconds slept by one call of verify_file_completion,
\* waiting for the file and for its size together, never exceed the timeout
C30_AsStated ==
    wKind = "file" => wClock <= wTimeout

\* C30: one call of verify_file_completion sleeps at most the timeout while
\* it waits for the file to exist and, `elapsed` being set back to 0 on
\* line 103, at most the timeout again while it waits for the size to
\* settle: at most twice the timeout in all
C30_EachWaitBounded ==
    wKind = "file"
    => /\ wElapsed <= wTimeout
       /\ wAt \in {"exist", "check"} => wClock = wElapsed
       /\ wClock <= 2 * wTimeout
       /\ wClock - wElapsed \in 0 .. wTimeout

\* a file that appeared at the end of the first wait and never settled: the
\* call returned after twice the timeout
C30_Witness ==
    /\ wKind = "file"
    /\ wAt = "returned"
    /\ wRet = [rc |-> 1, log |-> "did not stabilize"]
    /\ wClock = 2 * wTimeout


\* ------------------------------------------------------------------------
\* Part 3: the TypeScript front end.  gamePhysics.ts (src/unnamed/part_000)
\* ------------------------------------------------------------------------
\* Lengths are kept in the unit in which every value the code computes is
\* an integer: bird.y and bird.velocity in tenths of a pixel (GRAVITY 0.4
\* is 4, JUMP_FORCE -7.5 is -75), bird.rotation in hundredths of a degree
\* (newVelocity * 2.5 degrees is 25 hundredths per tenth of velocity).
\* Pipes and bird.x are in whole pixels.
Tenths == 10

CANVAS_WIDTH == 400

CANVAS_HEIGHT == 600

BIRD_SIZE == 30

PIPE_WIDTH == 60

PIPE_GAP == 180

GRAVITY == 4

JUMP_FORCE == -75

PIPE_SPEED == 3

PIPE_SPAWN_RATE == 120

MAX_VELOCITY == 10

GROUND_HEIGHT == 50

MathMin(a, b) == IF a <= b THEN a ELSE b

MathMax(a, b) == IF a >= b THEN a ELSE b

\* lowest and highest bird.y of updateBird (lines 19-20), in tenths
BirdTop == (BIRD_SIZE * Tenths) \div 2

BirdFloor == (CANVAS_HEIGHT - GROUND_HEIGHT) * Tenths - (BIRD_SIZE * Tenths) \div 2

\* updateBird with the new y left as computed, not clamped to the canvas
updateBirdNoClamp(b) ==
    LET newVelocity == MathMin(MAX_VELOCITY * Tenths, b.velocity + GRAVITY)
    IN  [y |-> b.y + newVelocity,
         velocity |-> newVelocity,
         rotation |-> MathMin(4500, MathMax(-2500, newVelocity * 25))]

\* updateBird, lines 17-29
updateBird(b) ==
    LET newVelocity == MathMin(MAX_VELOCITY * Tenths, b.velocity + GRAVITY)
        newY == MathMax(BirdTop, MathMin(BirdFloor, b.y + newVelocity))
    IN  [y |-> newY,
         velocity |-> newVelocity,
         rotation |-> MathMin(4500, MathMax(-2500, newVelocity * 25))]

\* jumpBird, lines 31-35
jumpBird(b) == [b EXCEPT !.velocity = JUMP_FORCE, !.rotation = -2500]

\* BirdSpec: any sequence of updateBird and jumpBird calls on the initial
\* bird of FlappyBirdGame (y = 300, velocity 0, rotation 0)
CallUpdateBird ==
    /\ bird' = updateBird(bird)
    /\ UNCHANGED << scriptVars, dispatchVars, waitVars, callVars, foreign,
                    gameVars, screenVars, legacyVars >>

CallJumpBird ==
    /\ bird' = jumpBird(bird)
    /\ UNCHANGED << scriptVars, dispatchVars, waitVars, callVars, foreign,
                    gameVars, screenVars, legacyVars >>

BirdNext == CallUpdateBird \/ CallJumpBird

BirdSpec == Init /\ [][BirdNext]_vars

\* ------------------------------------------------------------------------
\* Pipes and score of gamePhysics.ts
\* ------------------------------------------------------------------------
\* the map of updatePipes, line 39
MovePipes(ps) == [i \in 1 .. Len(ps) |-> [ps[i] EXCEPT !.x = @ - PIPE_SPEED]]

\* a pipe that has left the canvas, line 40
OnCanvas(p) == p.x > -PIPE_WIDTH

\* updatePipes, lines 37-41
updatePipes(ps) == SelectSeq(MovePipes(ps), OnCanvas)

\* generatePipe, lines 43-55, topHeight being the value drawn at line 46
generatePipe(id, topHeight) ==
    [x |-> CANVAS_WIDTH, topHeight |-> topHeight,
     bottomHeight |-> CANVAS_HEIGHT - topHeight - PIPE_GAP,
     passed |-> FALSE, id |-> id]

\* least and greatest topHeight of line 46:
\* floor(random * (maxHeight - minHeight)) + minHeight, 0 <= random < 1
MinTopHeight == 50

MaxTopHeight == CANVAS_HEIGHT - PIPE_GAP - MinTopHeight - 1

\* checkCollision, lines 57-80; b = [x, y], x in pixels, y in tenths
checkCollision(b, ps) ==
    \/ b.y >= BirdFloor
    \/ b.y <= BirdTop
    \/ \E i \in 1 .. Len(ps) :
          LET birdRadius == (BIRD_SIZE \div 2 - 2)
              birdLeft == b.x - birdRadius
              birdRight == b.x + birdRadius
              birdTop == b.y - birdRadius * Tenths
              birdBottom == b.y + birdRadius * Tenths
              pipeLeft == ps[i].x
              pipeRight == ps[i].x + PIPE_WIDTH
          IN  /\ birdRight > pipeLeft /\ birdLeft < pipeRight
              /\ \/ birdTop < ps[i].topHeight * Tenths
                 \/ birdBottom > (CANVAS_HEIGHT - ps[i].bottomHeight) * Tenths

\* the test of updateScore with the `!pipe.passed` conjunct left out
CountsNoMark(b, p) == p.x + PIPE_WIDTH < b.x

\* the test of updateScore, line 85
Counts(b, p) == ~p.passed /\ p.x + PIPE_WIDTH < b.x

\* updateScore, lines 82-93
updateScore(b, ps) ==
    [newPipes |-> [i \in 1 .. Len(ps) |->
                     IF Counts(b, ps[i]) THEN [ps[i] EXCEPT !.passed = TRUE]
                                         ELSE ps[i]],
     scoreIncrease |-> Cardinality({i \in 1 .. Len(ps) : Counts(b, ps[i])})]

\* C36: after any sequence of updateBird and jumpBird calls from the
\* initial bird, bird.y is within [15, 535], bird.velocity is at most
\* MAX_VELOCITY (10) and bird.rotation is within [-25, 45] degrees.
C36_BirdInRange ==
    /\ 15 * Tenths <= bird.y /\ bird.y <= 535 * Tenths
    /\ bird.velocity <= 10 * Tenths
    /\ -25 * 100 <= bird.rotation /\ bird.rotation <= 45 * 100

\* the bird has been driven against the top of the canvas while rising:
\* the clamp of updateBird has acted
C36_Witness ==
    /\ bird.y = 15 * Tenths
    /\ bird.velocity = -71
    /\ bird.rotation = -1775

\* ------------------------------------------------------------------------
\* ZKProofScreen.tsx, lines 1-387: one mounted proof screen under React 18
\* ------------------------------------------------------------------------
\* A function created by a render reads the state of that render for as
\* long as it is referred to: `rendered` is what handleSubmitScore,
\* startMonitoring, checkProofStatus and stopMonitoring of the latest
\* render read, and a request, a timer or an effect clean-up keeps the
\* monitoringInterval its own render saw (`seen`).  The calls of setState
\* within one handler are batched: they change `ui` in one step and the
\* component renders later, after the clean-up and the effect of the
\* render before it have run.  A click is a discrete event: React renders
\* what its handler changed before it handles any other event, running a
\* pending effect first and the effect of that render right after it.
\* submit-score requests one screen may send
MaxSubmits == 3

\* proof-status requests one screen may send
MaxPolls == 3

\* greatest score a standalone screen is mounted with
MaxScore == 2

\* useState initial values, lines 21-28
UiInit == [hasSubmitted |-> FALSE, isSubmitting |-> FALSE, error |-> FALSE,
           isMonitoring |-> FALSE, monitoringInterval |-> 0]

NoCount == [sent |-> 0, failed |-> 0, succeeded |-> 0, retries |-> 0,
            polls |-> 0]

\* statuses of /api/proof-status; the last three end the monitoring, line 94
TerminalStatuses == {"completed", "failed", "timeout"}

JobStatuses == {"pending", "in_progress"} \cup TerminalStatuses

\* the guard of handleSubmitScore, line 32, on the state its render saw
Passes(c) == ~(c.hasSubmitted \/ c.isSubmitting)

\* lines 36-38: setIsSubmitting(true); setError(null); setHasSubmitted(true)
UiSubmitting(u) ==
    [u EXCEPT !.isSubmitting = TRUE, !.error = FALSE, !.hasSubmitted = TRUE]

\* stopMonitoring, lines 103-109, called with monitoringInterval = id:
\* its effect on the state and on the live timers
UiStopped(u, id) ==
    [u EXCEPT !.isMonitoring = FALSE,
              !.monitoringInterval = IF id # 0 THEN 0 ELSE @]

ClearInterval(ts, id) == { t \in ts : t.id # id }

\* the screen as it is after its first render
FreshScreen(s) ==
    /\ mounted' = TRUE
    /\ scoreProp' = s
    /\ ui' = UiInit
    /\ rendered' = UiInit
    /\ effectPending' = TRUE
    /\ effectSeen' = UiInit
    /\ inFlight' = << >>
    /\ timers' = {}
    /\ nextTimer' = 1
    /\ statusReqs' = << >>
    /\ count' = NoCount
    /\ terminalSeen' = FALSE
    /\ flushing' = "no"

\* unmounting runs the clean-up of the effect last run, lines 218-220
GoneScreen ==
    /\ mounted' = FALSE
    /\ ui' = UiStopped(ui, effectSeen.monitoringInterval)
    /\ timers' = ClearInterval(timers, effectSeen.monitoringInterval)
    /\ effectPending' = FALSE
    /\ UNCHANGED << scoreProp, rendered, effectSeen, inFlight, nextTimer,
                    statusReqs, count, terminalSeen, flushing >>

\* the identity of handleSubmitScore changes with its dependencies
\* [score, hasSubmitted, isSubmitting], line 69
SameCallback(a, b) ==
    a.hasSubmitted = b.hasSubmitted /\ a.isSubmitting = b.isSubmitting

\* a render: the new functions see the state as it is now; the effect of
\* lines 212-221 is scheduled when handleSubmitScore is a new function
Render ==
    /\ mounted
    /\ ~effectPending
    /\ ui # rendered
    /\ rendered' = ui
    /\ effectPending' = ~SameCallback(ui, rendered)
    /\ flushing' = IF flushing = "render" /\ ~SameCallback(ui, rendered)
                   THEN "effects" ELSE "no"
    /\ UNCHANGED << mounted, scoreProp, ui, effectSeen, inFlight, timers,
                    nextTimer, statusReqs, count, terminalSeen >>
    /\ UNCHANGED << scriptVars, dispatchVars, waitVars, callVars, foreign,
                    bird, gameVars, legacyVars >>

\* the screen sends a submit-score request from the given site
SiteSends(site, s) == requests' = requests \cup {[site |-> site, score |-> s]}

\* the effect of lines 212-221: the clean-up of the effect run before (on
\* the first run there is none to run; what it would do leaves the initial
\* state as it is), then `if (score > 0) handleSubmitScore()`
RunEffect ==
    /\ mounted
    /\ effectPending
    /\ effectPending' = FALSE
    /\ effectSeen' = rendered
    /\ flushing' = IF flushing = "effects" THEN "no" ELSE flushing
    /\ timers' = ClearInterval(timers, effectSeen.monitoringInterval)
    /\ LET cleaned == UiStopped(ui, effectSeen.monitoringInterval)
       IN  IF scoreProp > 0 /\ Passes(rendered)
           THEN /\ count.sent < MaxSubmits
                /\ ui' = UiSubmitting(cleaned)
                /\ inFlight' = Append(inFlight, rendered.monitoringInterval)
                /\ count' = [count EXCEPT !.sent = @ + 1]
                /\ SiteSends("proofScreen", scoreProp)
           ELSE /\ ui' = cleaned
                /\ UNCHANGED << inFlight, count, requests >>
    /\ UNCHANGED << mounted, scoreProp, rendered, nextTimer, statusReqs,
                    terminalSeen >>
    /\ UNCHANGED << scriptVars, dispatchVars, waitVars, callVars, foreign,
                    bird, gameState, frameCount, pipeId, storedHighScore,
                    legacyVars >>

\* the Retry button, lines 351-356, shown by a render that has an error:
\* onClick={handleSubmitScore}
ClickRetry ==
    /\ mounted
    /\ flushing = "no"
    /\ rendered.error
    /\ count.retries < MaxSubmits
    /\ IF Passes(rendered)
       THEN /\ count.sent < MaxSubmits
            /\ ui' = UiSubmitting(ui)
            /\ inFlight' = Append(inFlight, rendered.monitoringInterval)
            /\ count' = [count EXCEPT !.sent = @ + 1, !.retries = @ + 1]
            /\ SiteSends("proofScreen", scoreProp)
            /\ flushing' = "render"
       ELSE /\ count' = [count EXCEPT !.retries = @ + 1]
            /\ UNCHANGED << ui, inFlight, requests, flushing >>
    /\ UNCHANGED << mounted, scoreProp, rendered, effectPending, effectSeen,
                    timers, nextTimer, statusReqs, terminalSeen >>
    /\ UNCHANGED << scriptVars, dispatchVars, waitVars, callVars, foreign,
                    bird, gameState, frameCount, pipeId, storedHighScore,
                    legacyVars >>

Without(q, i) == [j \in 1 .. Len(q) - 1 |-> IF j < i THEN q[j] ELSE q[j + 1]]

\* a submit-score request is answered with a job id, lines 43-55 and 66-68:
\* startMonitoring (lines 71-83) sends the first proof-status request and
\* starts the 10 s timer, both with the functions of the render that sent
\* the request
SubmitSucceeds ==
    \E i \in 1 .. Len(inFlight) :
        /\ flushing = "no"
        /\ count.polls < MaxPolls
        /\ inFlight' = Without(inFlight, i)
        /\ statusReqs' = Append(statusReqs, inFlight[i])
        /\ timers' = timers \cup {[id |-> nextTimer, seen |-> inFlight[i]]}
        /\ nextTimer' = nextTimer + 1
        /\ ui' = [ui EXCEPT !.isMonitoring = TRUE,
                            !.monitoringInterval = nextTimer,
                            !.isSubmitting = FALSE]
        /\ count' = [count EXCEPT !.succeeded = @ + 1, !.polls = @ + 1]
        /\ UNCHANGED << mounted, scoreProp, rendered, effectPending,
                        effectSeen, terminalSeen, flushing >>
        /\ UNCHANGED << scriptVars, dispatchVars, waitVars, callVars,
                        foreign, bird, gameVars, legacyVars >>

\* a submit-score request fails ("System is currently busy", a network
\* error), lines 56-68
SubmitFails ==
    \E i \in 1 .. Len(inFlight) :
        /\ flushing = "no"
        /\ inFlight' = Without(inFlight, i)
        /\ ui' = [ui EXCEPT !.error = TRUE, !.hasSubmitted = FALSE,
                            !.isSubmitting = FALSE]
        /\ count' = [count EXCEPT !.failed = @ + 1]
        /\ UNCHANGED << mounted, scoreProp, rendered, effectPending,
                        effectSeen, timers, nextTimer, statusReqs,
                        terminalSeen, flushing >>
        /\ UNCHANGED << scriptVars, dispatchVars, waitVars, callVars,
                        foreign, bird, gameVars, legacyVars >>

\* a 10 s timer fires, line 78: checkProofStatus sends a request
TimerFires ==
    \E t \in timers :
        /\ flushing = "no"
        /\ count.polls < MaxPolls
        /\ statusReqs' = Append(statusReqs, t.seen)
        /\ count' = [count EXCEPT !.polls = @ + 1]
        /\ UNCHANGED << mounted, scoreProp, ui, rendered, effectPending,
                        effectSeen, inFlight, timers, nextTimer,
                        terminalSeen, flushing >>
        /\ UNCHANGED << scriptVars, dispatchVars, waitVars, callVars,
                        foreign, bird, gameVars, legacyVars >>

\* a proof-status request is answered, lines 88-97: a terminal status calls
\* stopMonitoring of the render that started the monitoring
StatusAnswer ==
    \E i \in 1 .. Len(statusReqs), st \in JobStatuses :
        /\ flushing = "no"
        /\ statusReqs' = Without(statusReqs, i)
        /\ IF st \in TerminalStatuses
           THEN /\ ui' = UiStopped(ui, statusReqs[i])
                /\ timers' = ClearInterval(timers, statusReqs[i])
                /\ terminalSeen' = TRUE
           ELSE UNCHANGED << ui, timers, terminalSeen >>
        /\ UNCHANGED << mounted, scoreProp, rendered, effectPending,
                        effectSeen, inFlight, nextTimer, count, flushing >>
        /\ UNCHANGED << scriptVars, dispatchVars, waitVars, callVars,
                        foreign, bird, gameVars, legacyVars >>

ScreenNext ==
    \/ Render
    \/ RunEffect
    \/ ClickRetry
    \/ SubmitSucceeds
    \/ SubmitFails
    \/ TimerFires
    \/ StatusAnswer

\* a screen on its own: mounted once with a score the game can hand over
MountScreen ==
    /\ ~mounted
    /\ count = NoCount /\ effectSeen = UiInit /\ ui = UiInit
    /\ \E s \in 1 .. MaxScore : FreshScreen(s)
    /\ UNCHANGED requests
    /\ UNCHANGED << scriptVars, dispatchVars, waitVars, callVars, foreign,
                    bird, gameState, frameCount, pipeId, storedHighScore,
                    legacyVars >>

UnmountScreen ==
    /\ mounted
    /\ flushing = "no"
    /\ GoneScreen
    /\ UNCHANGED << scriptVars, dispatchVars, waitVars, callVars, foreign,
                    bird, gameVars, legacyVars >>

ScreenSpec == Init /\ [][MountScreen \/ UnmountScreen \/ ScreenNext]_vars

\* ------------------------------------------------------------------------
\* FlappyBirdGame, ZKProofScreen.tsx lines 388-686, and GameOverlay.tsx
\* ------------------------------------------------------------------------
\* frames one game is followed for
MaxFrames == 235

\* bird.x, lines 407 and 551: CANVAS_WIDTH * 0.3
BirdX == (CANVAS_WIDTH * 3) \div 10

\* The height of the bird at a tick is one of these values of updateBird's
\* range (tenths of a pixel): both ends, where checkCollision ends the
\* game, a height inside the gap of the highest and of the lowest pipe,
\* and the middle of the canvas.
BirdHeights == {BirdTop, 1000, 3000, 4500, BirdFloor}

TopHeights == {MinTopHeight, MaxTopHeight}

\* the game-over branch submits whatever the score is
AutoSubmitsAlways(newScore) == TRUE

\* line 479: the score is submitted when the game ends
AutoSubmits(newScore) == newScore > 0

\* startGame / restartGame, lines 547-566; the buttons of GameOverlay.tsx
\* lines 48 and 99
StartGame ==
    /\ gameState.gameStatus \in {"menu", "gameOver"}
    /\ gameState' = [gameState EXCEPT !.pipes = << >>, !.score = 0,
                                      !.gameStatus = "playing"]
    /\ frameCount' = 0
    /\ pipeId' = 0
    /\ UNCHANGED << storedHighScore, requests >>
    /\ UNCHANGED << scriptVars, dispatchVars, waitVars, callVars, foreign,
                    bird, screenVars, legacyVars >>

\* one run of the game loop, lines 436-519
GameLoop ==
    /\ gameState.gameStatus = "playing"
    /\ frameCount < MaxFrames
    /\ \E y \in BirdHeights, top \in TopHeights :
        LET updatedBird == [x |-> BirdX, y |-> y]
            moved == updatePipes(gameState.pipes)
            adjustedSpawnRate ==
                MathMax(80, PIPE_SPAWN_RATE - gameState.score * 2)
            spawns == frameCount % adjustedSpawnRate = 0
            withNew == IF spawns THEN Append(moved, generatePipe(pipeId, top))
                                 ELSE moved
            scored == updateScore(updatedBird, withNew)
            newScore == gameState.score + scored.scoreIncrease
            finalHighScore == MathMax(newScore, gameState.highScore)
        IN  /\ pipeId' = IF spawns THEN pipeId + 1 ELSE pipeId
            /\ IF checkCollision(updatedBird, scored.newPipes)
               THEN /\ storedHighScore' = finalHighScore
                    /\ IF AutoSubmits(newScore)
                       THEN SiteSends("gameOver", newScore)
                       ELSE UNCHANGED requests
                    /\ gameState' = [pipes |-> scored.newPipes,
                                     score |-> newScore,
                                     gameStatus |-> "gameOver",
                                     highScore |-> finalHighScore]
               ELSE /\ gameState' = [gameState EXCEPT
                                        !.pipes = scored.newPipes,
                                        !.score = newScore]
                    /\ UNCHANGED << storedHighScore, requests >>
    /\ frameCount' = frameCount + 1
    /\ UNCHANGED << scriptVars, dispatchVars, waitVars, callVars, foreign,
                    bird, screenVars, legacyVars >>

\* generateProof, lines 568-573, behind the button GameOverlay.tsx shows
\* when score > 0 (lines 89-97); line 623 then mounts the proof screen
GenerateProof ==
    /\ gameState.gameStatus = "gameOver"
    /\ gameState.score > 0
    /\ gameState' = [gameState EXCEPT !.gameStatus = "proof"]
    /\ FreshScreen(gameState.score)
    /\ UNCHANGED << frameCount, pipeId, storedHighScore, requests >>
    /\ UNCHANGED << scriptVars, dispatchVars, waitVars, callVars, foreign,
                    bird, legacyVars >>

\* backToMenu, lines 575-580: the proof screen is unmounted and its state
\* is gone with it; the requests and timers it leaves behind belong to no
\* screen and are not followed further
BackToMenu ==
    /\ gameState.gameStatus = "proof"
    /\ flushing = "no"
    /\ gameState' = [gameState EXCEPT !.gameStatus = "menu"]
    /\ mounted' = FALSE
    /\ scoreProp' = 0
    /\ ui' = UiInit
    /\ rendered' = UiInit
    /\ effectPending' = FALSE
    /\ effectSeen' = UiInit
    /\ inFlight' = << >>
    /\ timers' = {}
    /\ nextTimer' = 1
    /\ statusReqs' = << >>
    /\ count' = NoCount
    /\ terminalSeen' = FALSE
    /\ flushing' = "no"
    /\ UNCHANGED << frameCount, pipeId, storedHighScore, requests >>
    /\ UNCHANGED << scriptVars, dispatchVars, waitVars, callVars, foreign,
                    bird, legacyVars >>

\* submitCurrentScore, lines 583-603, behind the menu button GameOverlay.tsx
\* shows when highScore > 0 (line 56)
SubmitCurrentScore ==
    /\ gameState.gameStatus = "menu"
    /\ gameState.highScore > 0
    /\ LET currentHighScore == storedHighScore
       IN  IF currentHighScore > 0
           THEN SiteSends("menu", currentHighScore)
           ELSE UNCHANGED requests
    /\ UNCHANGED << gameState, frameCount, pipeId, storedHighScore >>
    /\ UNCHANGED << scriptVars, dispatchVars, waitVars, callVars, foreign,
                    bird, screenVars, legacyVars >>

GameNext ==
    \/ StartGame
    \/ GameLoop
    \/ GenerateProof
    \/ BackToMenu
    \/ SubmitCurrentScore

\* the game alone: the proof screen is opened and closed, not followed
GameSpec == Init /\ [][GameNext]_vars

\* the game together with the proof screen it opens, the screen followed
\* in what bears on its submit-score requests
SubmitNext ==
    \/ Render
    \/ RunEffect
    \/ ClickRetry
    \/ SubmitSucceeds
    \/ SubmitFails

AppSpec == Init /\ [][GameNext \/ SubmitNext]_vars

\* C35: each pipe increases the score by exactly one.  A pipe is marked
\* passed exactly when its right edge is left of the bird, it is counted
\* at the tick that marks it, the score is the number of pipes generated
\* in this game that are no longer unmarked (a pipe is never removed
\* before it is counted), and the score never decreases during a game.
C35_OnePointPerPipe ==
    [][/\ \A i \in 1 .. Len(gameState'.pipes) :
             gameState'.pipes[i].passed
                 <=> gameState'.pipes[i].x + PIPE_WIDTH < BirdX
       /\ gameState'.score =
             pipeId' - Cardinality({i \in 1 .. Len(gameState'.pipes) :
                                       ~gameState'.pipes[i].passed})
       /\ gameState.gameStatus = "playing"
             => /\ gameState'.score >= gameState.score
                /\ gameState'.score - gameState.score =
                     Cardinality({i \in 1 .. Len(gameState'.pipes) :
                        /\ gameState'.pipes[i].passed
                        /\ \E j \in 1 .. Len(gameState.pipes) :
                              /\ gameState.pipes[j].id = gameState'.pipes[i].id
                              /\ ~gameState.pipes[j].passed})]_vars

\* the first pipe has been counted and has left the canvas, the second has
\* been counted as well
C35_Witness ==
    /\ gameState.score = 2
    /\ Len(gameState.pipes) = 1
    /\ gameState.pipes[1].id = 1
    /\ gameState.pipes[1].passed

\* C34: the TypeScript front end never sends a submit-score request with
\* score 0: the submit at game over, the submit of the high score from
\* the menu and the submit of the proof screen all carry a score > 0, and
\* the proof screen is only ever mounted with a score > 0.
C34_NoZeroScoreSubmitted ==
    /\ \A r \in requests : r.score > 0
    /\ mounted => scoreProp > 0

\* each of the three sites has sent a request
C34_Witness ==
    \A site \in {"gameOver", "menu", "proofScreen"} :
        \E r \in requests : r.site = site

\* C31: once a status poll has returned a terminal status (completed,
\* failed, timeout) the mounted proof screen has stopped monitoring: its
\* 10-second timer is cleared and it issues no further proof-status
\* request.
C31_StopsAfterTerminal ==
    /\ [](mounted /\ terminalSeen => timers = {})
    /\ [][mounted /\ terminalSeen => count'.polls = count.polls]_vars

\* C32: for one mounted screen, however often the effect re-runs or
\* handleSubmitScore is called, at most one submit-score request is in
\* flight at any time and none is sent after one has succeeded.
C32_OneSubmitAtATime ==
    /\ [](Len(inFlight) <= 1)
    /\ [][count.succeeded > 0 => count'.sent <= count.sent]_vars

\* C33: after a submit-score attempt has failed, a further submit-score
\* request is sent only by a press of Retry, never automatically.
C33_NoAutoResubmit ==
    [][count.failed > 0 /\ count'.sent > count.sent
          => count'.retries > count.retries]_vars

\* ------------------------------------------------------------------------
\* The legacy React game: SimpleFlappyBird (src/unnamed/part_002) and
\* FlappyBirdWithZisk (flappy_bird_with_zisk.jsx), the same game state,
\* timers and collision effect in both
\* ------------------------------------------------------------------------
\* pipes one game creates
MaxLegacyPipes == 3

\* greatest score one game is followed to
MaxLegacyScore == 3

gameHeight == 600

gameWidth == 400

gravity == 6

jumpHeight == 80

pipeWidth == 60

pipeGap == 150

\* least and greatest topHeight of line 40:
\* floor(random * (gameHeight - pipeGap - 100)) + 50, 0 <= random < 1
LegacyTopHeights == {50, gameHeight - pipeGap - 100 + 50 - 1}

\* the collision-detection effect, lines 67-80, on the state of the render
\* it follows
CollisionEffect(l) ==
    LET birdWithinPipeX(p) == p.x < 50 /\ p.x + pipeWidth > 20
        birdHitPipe(p) == \/ l.birdPosition < p.topHeight
                          \/ l.birdPosition > p.topHeight + pipeGap
        hit == \E i \in 1 .. Len(l.pipes) :
                  birdWithinPipeX(l.pipes[i]) /\ birdHitPipe(l.pipes[i])
        points == Cardinality({i \in 1 .. Len(l.pipes) :
                                  l.pipes[i].x + pipeWidth = 20})
    IN  [l EXCEPT !.gameOver = IF hit THEN TRUE ELSE @,
                  !.gameStarted = IF hit THEN FALSE ELSE @,
                  !.score = @ + points]

\* React runs the effect after a render in which `pipes` or `birdPosition`
\* is not the value of the render before (line 80); setPipes always
\* stores a new array, setBirdPosition may store the number it had
AfterRender(l) ==
    IF l.pipes = legacy.pipes /\ l.birdPosition = legacy.birdPosition
    THEN l
    ELSE CollisionEffect(l)

\* the 24 ms gravity timer, lines 24-31
GravityTimer ==
    /\ legacy.gameStarted /\ ~legacy.gameOver
    /\ legacy' = AfterRender([legacy EXCEPT !.birdPosition =
                                  MathMin(@ + gravity, gameHeight - 30)])
    /\ legacy'.score <= MaxLegacyScore
    /\ UNCHANGED spawned
    /\ UNCHANGED << scriptVars, dispatchVars, waitVars, callVars, foreign,
                    bird, gameVars, screenVars >>

\* the pipe a pipe-timer run appends, line 39
NeedsPipe(ps) == Len(ps) = 0 \/ ps[Len(ps)].x < gameWidth - 200

LegacyOnCanvas(p) == p.x + pipeWidth > 0

\* the 50 ms pipe timer, lines 34-48; a new array is a new value of
\* `pipes`, so the effect runs after every run of this timer
PipeTimer ==
    /\ legacy.gameStarted /\ ~legacy.gameOver
    /\ \E topHeight \in LegacyTopHeights :
        LET moved == [i \in 1 .. Len(legacy.pipes) |->
                        [legacy.pipes[i] EXCEPT !.x = @ - 5]]
            newPipes == IF NeedsPipe(moved)
                        THEN Append(moved, [x |-> gameWidth,
                                            topHeight |-> topHeight])
                        ELSE moved
        IN  /\ NeedsPipe(moved) => spawned < MaxLegacyPipes
            /\ spawned' = IF NeedsPipe(moved) THEN spawned + 1 ELSE spawned
            /\ legacy' = CollisionEffect(
                   [legacy EXCEPT !.pipes = SelectSeq(newPipes, LegacyOnCanvas)])
    /\ legacy'.score <= MaxLegacyScore
    /\ UNCHANGED << scriptVars, dispatchVars, waitVars, callVars, foreign,
                    bird, gameVars, screenVars >>

\* handleJump, lines 82-93: starts a game, or lifts the bird
LegacyJump ==
    /\ IF ~legacy.gameStarted
       THEN /\ legacy' = [birdPosition |-> 250, pipes |-> << >>, score |-> 0,
                          gameStarted |-> TRUE, gameOver |-> FALSE]
            /\ spawned' = 0
       ELSE /\ legacy' = AfterRender([legacy EXCEPT !.birdPosition =
                                         MathMax(@ - jumpHeight, 0)])
            /\ UNCHANGED spawned
    /\ legacy'.score <= MaxLegacyScore
    /\ UNCHANGED << scriptVars, dispatchVars, waitVars, callVars, foreign,
                    bird, gameVars, screenVars >>

LegacyNext == GravityTimer \/ PipeTimer \/ LegacyJump

LegacySpec == Init /\ [][LegacyNext]_vars

\* C37: in the legacy game, for every interleaving of the 24 ms gravity
\* timer and the 50 ms pipe timer, each pipe the bird passes increases the
\* score by exactly one: the score is the number of pipes of this game
\* whose right edge has reached the bird's left edge (x + pipeWidth <= 20).
C37_OnePointPerPipeLegacy ==
    legacy.score =
        spawned - Cardinality({i \in 1 .. Len(legacy.pipes) :
                                  legacy.pipes[i].x + pipeWidth > 20})
====
